---------------------------- MODULE Spec2Model ----------------------------
(***************************************************************************)
(* A model of the EduAnalytics CAASPP ingestion pipeline                   *)
(* (src/ingest/flow.py, src/ingest/transforms.py) and of the SQL tools of  *)
(* the question-answering layer (src/app/tools_sql.py), as the chat        *)
(* sessions of src/ui/streamlit_app.py share them.                         *)
(*                                                                         *)
(* A data frame is a record [cols, rows]: cols is the sequence of column   *)
(* names, rows a sequence of rows, each a sequence of cells aligned with   *)
(* cols.  A cell is a text (a sequence of strings) or Null.  Python's None *)
(* for a data frame is the frame of no columns and no rows: every branch   *)
(* of the code that tests "is None" treats the two alike.                  *)
(***************************************************************************)
EXTENDS Integers, Sequences, FiniteSets, Bags, TLC

VARIABLES
    fact,            \* analytics.fact_scores, a bag of rows (records over CopyCols)
    tests,           \* load_tests argument: the results table
    year_key,        \* load_tests argument: the year
    county_lookup,   \* load_tests argument: the county-name lookup (None when absent)
    df,              \* load_tests local: the frame as it stands before the COPY reconciliation
    loadCalls,       \* number of load_tests calls made on (tests, year_key, county_lookup)
    loadResult,      \* how the last load_tests call ended: "none", "empty", "skipped", "failed", "loaded"
    indexExists,     \* whether the Pinecone index is among pc.list_indexes()
    index,           \* the documents the Pinecone index holds, a bag
    entity_dataframes,  \* build_pinecone_index argument: sequence of <<year, entities frame>>
    student_groups_df,  \* build_pinecone_index argument
    tests_df,        \* build_pinecone_index argument
    written,         \* batches written by the last build_pinecone_index run
    buildCalls,      \* number of build_pinecone_index runs
    buildResult,     \* how the last run ended: "none", "completed", "failed"
    dim_year,        \* analytics.dim_year, a set of rows [year_key, label]
    pc,              \* where caaspp_last_3_years stands: "idle", "start", "year", "archive",
                     \*   "wait", "done", "aborted"
    cur_y,           \* the loop variable y
    zip_urls,        \* the archives of year y still to fetch, each what its URL serves
    deletes,         \* the delete_scores_for_year task of each year: "unsubmitted",
                     \*   "pending", "completed", "failed"
    load_tasks,      \* the submitted load_tests tasks, in order: [year, tests, lookup, state]
    buildSubmitted,  \* build_pinecone_index has been submitted
    flowError,       \* the exception that ended the flow: "none", "reference_fetch",
                     \*   "listing_fetch", "archive_fetch", "parse", "load_task"
    faults,          \* failures that have occurred in the run so far
    zip_bytes,       \* parse_zip_caret argument: the payload, [corrupt, entries]
    contents,        \* parse_zip_caret: the contents returned, [entities, tests]
    parsed,          \* parse_zip_caret has returned
    list_html,       \* caret_zip_urls argument: the href targets of the page, in page order
    located,         \* caret_zip_urls: the list returned
    locateCalls,     \* number of caret_zip_urls runs on list_html
    responses,       \* http_get: what each attempt of the task run got, in order
    fetchState,      \* http_get task run: "idle", "running", "completed", "failed"
    content,         \* http_get: the body the task run returned
    error_count,     \* SQLToolkit.error_count
    last_query_text, \* SQLToolkit.last_query_text
    last_error_text, \* SQLToolkit.last_error_text
    executed,        \* the queries handed to the database, in order
    answer,          \* what the query tool returned last
    sqlCalls,        \* number of calls of the query tool
    streak,          \* executions that failed in a row since the last success or reset
    own,             \* per chat session: its own executions that failed in a row since
                     \*   its own last success or reset
    caller           \* the chat session whose agent called the query tool last, 0 at first

loaderVars == <<tests, year_key, county_lookup, df, loadCalls, loadResult>>

indexVars == <<indexExists, index, entity_dataframes, student_groups_df, tests_df,
               written, buildCalls, buildResult>>

flowVars == <<dim_year, pc, cur_y, zip_urls, deletes, load_tasks, buildSubmitted, flowError,
              faults>>

parserVars == <<zip_bytes, contents, parsed>>

locatorVars == <<list_html, located, locateCalls>>

fetchVars == <<responses, fetchState, content>>

sqlVars == <<error_count, last_query_text, last_error_text, executed, answer, sqlCalls,
            streak, own, caller>>

auxVars == <<parserVars, locatorVars, fetchVars, sqlVars>>

vars == <<fact, loaderVars, indexVars, flowVars, auxVars>>

\* parse_zip_caret not called
ParserIdle ==
    /\ zip_bytes = [corrupt |-> FALSE, entries |-> <<>>]
    /\ contents = [entities |-> [cols |-> <<>>, rows |-> <<>>], tests |-> [cols |-> <<>>, rows |-> <<>>]]
    /\ parsed = FALSE

\* caret_zip_urls not called
LocatorIdle ==
    /\ list_html = <<>>
    /\ located = <<>>
    /\ locateCalls = 0

\* http_get not called
FetchIdle ==
    /\ responses = <<>>
    /\ fetchState = "idle"
    /\ content = <<>>

\* the SQLToolkit as constructed (tools_sql.py:14-34), its query tool not called
SqlIdle ==
    /\ error_count = 0
    /\ last_query_text = <<>>
    /\ last_error_text = <<>>
    /\ executed = <<>>
    /\ answer = "none"
    /\ sqlCalls = 0
    /\ streak = 0
    /\ own = <<0, 0>>
    /\ caller = 0

----------------------------------------------------------------------------
(* Bounds of the model *)

\* the year the wall clock gives (flow.py:368-369)
LatestYear == 2026
\* rows of a results table
MaxRows == 2
\* neighbouring source columns left out of a results table
MaxMissing == 2
\* neighbouring source columns a sparse results table has beside test_id
MaxPresent == 2
\* load_tests calls in a row on the same arguments
MaxLoads == 2
\* build_pinecone_index runs in a row on the same arguments
MaxBuilds == 2
\* rows of the large entities table
ManyEntities == 95
\* archives the listing pages of one run link to, all years together
MaxArchives == 1
\* failures (of a fetch, a task, a join) in one run of the flow
MaxFaults == 1

\* archives on the listing page of the last year, in the specification of that year
MaxYearArchives == 2
\* entries of an archive beside its entities file and its results file
MaxExtra == 2
\* links of a listing page
MaxLinks == 5
\* calls of the SQL tools on one toolkit
MaxQueries == 4

(* Program constants *)

\* int(os.getenv("LAST_YEARS","3"))
last_years == 3
\* zfill widths of county_code, district_code, school_code
CountyWidth == 2
DistrictWidth == 5
SchoolWidth == 7
\* batch_size of the index upload
batch_size == 100
\* @task(retries=2, ...) of http_get (flow.py:21)
retries == 2
\* SQLToolkit.max_attempts (tools_sql.py:34, 104)
max_attempts == 3

----------------------------------------------------------------------------
(* Cells and frames *)

Null == <<"NULL">>

None == [cols |-> <<>>, rows |-> <<>>]

Range(s) == {s[i] : i \in DOMAIN s}

Height(t) == Len(t.rows)

HasCol(t, c) == c \in Range(t.cols)

ColIdx(t, c) == CHOOSE i \in DOMAIN t.cols : t.cols[i] = c

Cell(t, r, c) == t.rows[r][ColIdx(t, c)]

\* df.rename({from: to})
Rename(t, from, to) ==
    [t EXCEPT !.cols = [i \in DOMAIN t.cols |-> IF t.cols[i] = from THEN to ELSE t.cols[i]]]

\* df.select(names)
Select(t, names) ==
    [cols |-> names,
     rows |-> [r \in DOMAIN t.rows |-> [j \in DOMAIN names |-> Cell(t, r, names[j])]]]

\* df.with_columns(expr.alias(name)): vals[r] is the value of expr in row r
WithColumn(t, name, vals) ==
    IF HasCol(t, name)
    THEN [t EXCEPT !.rows = [r \in DOMAIN t.rows |->
                                [t.rows[r] EXCEPT ![ColIdx(t, name)] = vals[r]]]]
    ELSE [cols |-> Append(t.cols, name),
          rows |-> [r \in DOMAIN t.rows |-> Append(t.rows[r], vals[r])]]

\* df.drop([name])
Drop(t, name) ==
    LET keep == SelectSeq(t.cols, LAMBDA c : c # name)
    IN  Select(t, keep)

Zeros(n) == [i \in 1..n |-> "0"]

\* str.zfill(w): pad on the left with zeros up to width w, after a leading sign
ZFillText(s, w) ==
    IF Len(s) >= w THEN s
    ELSE IF Len(s) > 0 /\ s[1] \in {"-", "+"}
         THEN <<s[1]>> \o Zeros(w - Len(s)) \o Tail(s)
         ELSE Zeros(w - Len(s)) \o s

\* pl.col(c).cast(pl.Utf8).str.zfill(w) on one cell: a null stays null
ZFill(v, w) == IF v = Null THEN Null ELSE ZFillText(v, w)

\* the + of two Utf8 expressions: null when either side is null
Concat(a, b) == IF a = Null \/ b = Null THEN Null ELSE a \o b

----------------------------------------------------------------------------
(* load_tests: the reshape of a results table (flow.py:72-183) *)

\* the rename map ren, in the order of its keys
ren ==
    << <<"student_group_id", "subgroup">>,
       <<"grade", "grade">>,
       <<"total_students_tested", "tested">>,
       <<"total_students_tested_with_scores", "tested_with_scores">>,
       <<"mean_scale_score", "mean_scale_score">>,
       <<"percentage_standard_exceeded", "pct_exceeded">>,
       <<"count_standard_exceeded", "cnt_exceeded">>,
       <<"percentage_standard_met", "pct_met">>,
       <<"count_standard_met", "cnt_met">>,
       <<"percentage_standard_met_and_above", "pct_met_and_above">>,
       <<"count_standard_met_and_above", "cnt_met_and_above">>,
       <<"percentage_standard_nearly_met", "pct_nearly_met">>,
       <<"count_standard_nearly_met", "cnt_nearly_met">>,
       <<"percentage_standard_not_met", "pct_not_met">>,
       <<"count_standard_not_met", "cnt_not_met">>,
       <<"county_code", "county_code">>,
       <<"district_code", "district_code">>,
       <<"school_code", "school_code">>,
       <<"district_name", "district_name">>,
       <<"school_name", "school_name">>,
       <<"test_id", "test_id">> >>

RenKeys == [i \in DOMAIN ren |-> ren[i][1]]

RenValues == [i \in DOMAIN ren |-> ren[i][2]]

\* the column list of the reshape, swapped in two neighbouring places
expected_cols_shifted ==
    << "subgroup", "grade", "tested_with_scores", "tested", "mean_scale_score",
       "pct_exceeded", "cnt_exceeded", "pct_met", "cnt_met",
       "pct_met_and_above", "cnt_met_and_above", "pct_nearly_met", "cnt_nearly_met",
       "pct_not_met", "cnt_not_met",
       "county_name",
       "county_code", "district_code", "school_code",
       "district_name", "school_name", "test_id", "year_key" >>

\* expected_cols, the column list the reshape ends with
expected_cols ==
    << "subgroup", "grade", "tested", "tested_with_scores", "mean_scale_score",
       "pct_exceeded", "cnt_exceeded", "pct_met", "cnt_met",
       "pct_met_and_above", "cnt_met_and_above", "pct_nearly_met", "cnt_nearly_met",
       "pct_not_met", "cnt_not_met",
       "county_name",
       "county_code", "district_code", "school_code",
       "district_name", "school_name", "test_id", "year_key" >>

\* the column list of the COPY statement
CopyCols ==
    << "subgroup", "grade", "tested", "tested_with_scores", "mean_scale_score",
       "pct_exceeded", "cnt_exceeded", "pct_met", "cnt_met",
       "pct_met_and_above", "cnt_met_and_above", "pct_nearly_met", "cnt_nearly_met",
       "pct_not_met", "cnt_not_met",
       "county_name",
       "county_code", "district_code", "school_code",
       "district_name", "school_name", "test_id", "year_key" >>

\* pl.lit(year_key) as a cell
YearCell(y) == <<ToString(y)>>

ConstCol(t, v) == [r \in DOMAIN t.rows |-> v]

\* a rename that put students_tested in the place of a canonical column that exists
RenameLegacyOver(t) ==
    LET t1 == IF HasCol(t, "students_tested")
              THEN Rename(Drop(t, "total_students_tested"),
                          "students_tested", "total_students_tested")
              ELSE t
    IN  IF HasCol(t1, "total_tested_with_scores_at_reporting_level")
           /\ ~HasCol(t1, "total_students_tested_with_scores")
        THEN Rename(t1, "total_tested_with_scores_at_reporting_level",
                    "total_students_tested_with_scores")
        ELSE IF HasCol(t1, "students_with_scores")
                /\ ~HasCol(t1, "total_students_tested_with_scores")
             THEN Rename(t1, "students_with_scores", "total_students_tested_with_scores")
             ELSE t1

\* lines 83-89: the legacy synonyms, renamed only when the canonical name is absent
RenameLegacy(t) ==
    LET t1 == IF HasCol(t, "students_tested") /\ ~HasCol(t, "total_students_tested")
              THEN Rename(t, "students_tested", "total_students_tested")
              ELSE t
    IN  IF HasCol(t1, "total_tested_with_scores_at_reporting_level")
           /\ ~HasCol(t1, "total_students_tested_with_scores")
        THEN Rename(t1, "total_tested_with_scores_at_reporting_level",
                    "total_students_tested_with_scores")
        ELSE IF HasCol(t1, "students_with_scores")
                /\ ~HasCol(t1, "total_students_tested_with_scores")
             THEN Rename(t1, "students_with_scores", "total_students_tested_with_scores")
             ELSE t1

\* lines 116-118: cols = [c for c in ren if c in df.columns]; df.select(cols).rename(rename_map)
SelectRenamed(t) ==
    LET idx  == SelectSeq([i \in DOMAIN ren |-> i], LAMBDA i : HasCol(t, RenKeys[i]))
        cols == [j \in DOMAIN idx |-> RenKeys[idx[j]]]
        sel  == Select(t, cols)
    IN  [sel EXCEPT !.cols = [j \in DOMAIN idx |-> RenValues[idx[j]]]]

\* lines 128-136, one code: pad into a temp column, drop the original, rename the temp
PadCode(t, c, w) ==
    IF HasCol(t, c)
    THEN LET tmp == WithColumn(t, "tmp_p", [r \in DOMAIN t.rows |-> ZFill(Cell(t, r, c), w)])
         IN  Rename(Drop(tmp, c), "tmp_p", c)
    ELSE t

\* the padding with the widths of district and school exchanged
PadCodesSwapped(t) ==
    PadCode(PadCode(PadCode(t, "county_code", CountyWidth),
                    "district_code", SchoolWidth),
            "school_code", DistrictWidth)

\* lines 128-136
PadCodes(t) ==
    PadCode(PadCode(PadCode(t, "county_code", CountyWidth),
                    "district_code", DistrictWidth),
            "school_code", SchoolWidth)

\* lines 139-146: cds_code from the three codes, when all three are there
WithCds(t) ==
    IF HasCol(t, "county_code") /\ HasCol(t, "district_code") /\ HasCol(t, "school_code")
    THEN WithColumn(t, "cds_code",
            [r \in DOMAIN t.rows |->
                Concat(Concat(ZFill(Cell(t, r, "county_code"), CountyWidth),
                              ZFill(Cell(t, r, "district_code"), DistrictWidth)),
                       ZFill(Cell(t, r, "school_code"), SchoolWidth))])
    ELSE t

\* a lookup left with its repeated codes
UniqueKeepAll(cl) == cl

\* cl.unique(subset=["county_code"], keep="first")
UniqueFirst(cl) ==
    LET keep == SelectSeq([r \in DOMAIN cl.rows |-> r],
                    LAMBDA r : \A q \in 1..(r - 1) :
                                  Cell(cl, q, "county_code") # Cell(cl, r, "county_code"))
    IN  [cl EXCEPT !.rows = [j \in DOMAIN keep |-> cl.rows[keep[j]]]]

RECURSIVE Flatten(_)
Flatten(ss) == IF ss = <<>> THEN <<>> ELSE Head(ss) \o Flatten(Tail(ss))

\* df.join(cl, on="county_code", how="left"): one output row per match, one with a
\* null when there is none; a null key matches nothing
LeftJoin(t, cl) ==
    LET name    == ColIdx(cl, "county_name")
        match(r) == SelectSeq([q \in DOMAIN cl.rows |-> q],
                        LAMBDA q : /\ Cell(t, r, "county_code") # Null
                                   /\ Cell(cl, q, "county_code") = Cell(t, r, "county_code"))
        out(r)  == IF match(r) = <<>>
                   THEN << Append(t.rows[r], Null) >>
                   ELSE [j \in DOMAIN match(r) |-> Append(t.rows[r], cl.rows[match(r)[j]][name])]
    IN  [cols |-> Append(t.cols, "county_name"),
         rows |-> Flatten([r \in DOMAIN t.rows |-> out(r)])]

\* lines 149-164: the county-name enrichment; joinFails is the except branch
JoinCounty(t, lookup, joinFails) ==
    IF lookup # None /\ HasCol(t, "county_code")
    THEN IF joinFails THEN t
         ELSE LET cl1  == IF HasCol(lookup, "county_code")
                          THEN WithColumn(lookup, "county_code",
                                  [r \in DOMAIN lookup.rows |->
                                      ZFill(Cell(lookup, r, "county_code"), CountyWidth)])
                          ELSE lookup
                  keep == SelectSeq(<<"county_code", "county_name">>,
                                    LAMBDA c : HasCol(cl1, c))
              IN  IF "county_name" \in Range(keep)
                  THEN IF HasCol(cl1, "county_code")
                       THEN LeftJoin(t, UniqueFirst(Select(cl1, keep)))
                       ELSE t
                  ELSE t
    ELSE t

\* lines 178-183: add the missing columns as nulls, then select in the order of expected_cols
Reconcile(t) ==
    LET missing == SelectSeq(expected_cols, LAMBDA c : ~HasCol(t, c))
        filled  == [cols |-> t.cols \o missing,
                    rows |-> [r \in DOMAIN t.rows |->
                                 t.rows[r] \o [j \in DOMAIN missing |-> Null]]]
    IN  Select(filled, expected_cols)

\* lines 80-164: the frame load_tests holds when it reaches the COPY reconciliation
Reshape(t, y, lookup, joinFails) ==
    LET renamed == SelectRenamed(RenameLegacy(t))
        tagged  == WithColumn(renamed, "year_key", ConstCol(renamed, YearCell(y)))
    IN  JoinCounty(WithCds(PadCodes(tagged)), lookup, joinFails)

\* a test that found test_id in every table
HasTestIdAlways(t) == TRUE

\* line 120: the table is abandoned when test_id is not among the selected columns
HasTestId(t) == HasCol(SelectRenamed(RenameLegacy(t)), "test_id")

----------------------------------------------------------------------------
(* load_tests: the bulk load (flow.py:185-214) *)

\* na_rep='\\N' of to_csv
NaRep == <<"\\", "N">>

\* NULL '\\N' of the COPY statement
CopyNull == <<"\\", "N">>

\* pandas_df.to_csv(buffer, index=False, header=False, na_rep=...): one line per
\* row, the fields in the frame's column order, no header
ToCsv(t) ==
    [r \in DOMAIN t.rows |->
        [j \in DOMAIN t.cols |-> IF t.rows[r][j] = Null THEN NaRep ELSE t.rows[r][j]]]

\* COPY ... FROM STDIN rejects a line whose field count is not that of its column list
CopyAccepts(lines) == \A r \in DOMAIN lines : Len(lines[r]) = Len(CopyCols)

\* COPY assigns the fields of a line to the columns of its list by position
CopyRow(line) ==
    [c \in Range(CopyCols) |->
        LET v == line[CHOOSE i \in DOMAIN CopyCols : CopyCols[i] = c]
        IN  IF v = CopyNull THEN Null ELSE v]

\* the bag of the elements of a sequence
BagOfSeq(s) == [x \in Range(s) |-> Cardinality({i \in DOMAIN s : s[i] = x})]

\* the rows the COPY of frame t inserts
CopiedRows(t) == LET lines == ToCsv(t) IN BagOfSeq([r \in DOMAIN lines |-> CopyRow(lines[r])])

\* lines 185-213: the transaction of load_tests holds the COPY alone
Insert(f, t, y) == f (+) CopiedRows(t)

\* load_tests(engine, tests, year_key, county_lookup) on warehouse f.  joinFails and
\* copyFails are the outcomes of the join's try block and of the COPY transaction.
load_tests(f, t, y, lookup, joinFails, copyFails) ==
    IF t = None \/ Height(t) = 0
    THEN [fact |-> f, df |-> t, result |-> "empty"]
    ELSE IF ~HasTestId(t)
    THEN [fact |-> f, df |-> SelectRenamed(RenameLegacy(t)), result |-> "skipped"]
    ELSE LET d     == Reshape(t, y, lookup, joinFails)
             final == Reconcile(d)
         IN  IF copyFails \/ ~CopyAccepts(ToCsv(final))
             THEN [fact |-> f, df |-> d, result |-> "failed"]
             ELSE [fact |-> Insert(f, final, y), df |-> d, result |-> "loaded"]

----------------------------------------------------------------------------
(* The warehouse and the year window *)

\* range(latest_year - last_years + 1, latest_year + 1)
Window == (LatestYear - last_years + 1)..LatestYear

\* a row left in fact_scores for year y by an earlier run
OldRow(y) == [c \in Range(CopyCols) |-> IF c = "year_key" THEN YearCell(y) ELSE <<"old", c>>]

OldFacts == SetToBag({OldRow(y) : y \in Window})

\* the rows of year y in warehouse f
RowsOfYear(f, y) ==
    LET of == {row \in DOMAIN f : row.year_key = YearCell(y)}
    IN  [row \in of |-> f[row]]

----------------------------------------------------------------------------
(* Inputs of the loader specification *)

\* the columns a results file may carry, in file order: the keys of ren, the legacy
\* synonyms, and columns the loader does not know
SourceColumns ==
    << "county_code", "district_code", "school_code", "filler", "test_type",
       "student_group_id", "total_tested_with_scores_at_reporting_level", "grade",
       "test_id", "students_tested", "students_with_scores",
       "total_students_tested", "total_students_tested_with_scores", "mean_scale_score",
       "percentage_standard_exceeded", "count_standard_exceeded",
       "percentage_standard_met", "count_standard_met",
       "percentage_standard_met_and_above", "count_standard_met_and_above",
       "percentage_standard_nearly_met", "count_standard_nearly_met",
       "percentage_standard_not_met", "count_standard_not_met",
       "county_name", "district_name", "school_name" >>

AllSource == Range(SourceColumns)

CodeColumns == {"county_code", "district_code", "school_code"}

Digit == <<"0", "1", "2", "3", "4", "5", "6", "7", "8", "9">>

\* a code of n digits
CodeText(n, seed) == [i \in 1..n |-> Digit[((i + seed) % 10) + 1]]

CodeSeeds == {2, 9}

\* a code of n digits, the null code for n = 0 (read_csv reads an empty field as null)
CodeOrNull(n, seed) == IF n = 0 THEN Null ELSE CodeText(n, seed)

\* the runs of at most k neighbouring columns of the file order
Runs(k) ==
    {{SourceColumns[i] : i \in (a..(a + n - 1)) \cap DOMAIN SourceColumns} :
        a \in DOMAIN SourceColumns, n \in 0..k}

\* the column sets of the results tables: all but a run, or test_id and a run
ColumnSets ==
    {AllSource \ D : D \in Runs(MaxMissing)}
        \cup {{"test_id"} \cup P : P \in Runs(MaxPresent)}

Reverse(s) == [i \in DOMAIN s |-> s[Len(s) + 1 - i]]

\* a results table of n rows with the columns S; the cell of a code column is the
\* row's code, every other cell names its column and row
MkTests(S, rev, n, codes) ==
    LET ordered == SelectSeq(SourceColumns, LAMBDA c : c \in S)
        cols    == IF rev THEN Reverse(ordered) ELSE ordered
    IN  [cols |-> cols,
         rows |-> [r \in 1..n |->
                     [j \in DOMAIN cols |->
                         IF cols[j] \in CodeColumns THEN codes[r][cols[j]]
                         ELSE <<cols[j], ToString(r)>>]]]

\* the codes of row r of the tables whose columns vary
RowCodes(r) ==
    [c \in CodeColumns |->
        IF c = "county_code" THEN CodeText(1, r)
        ELSE IF c = "district_code" THEN CodeText(3, r) ELSE CodeText(7, r)]

MkLookup(cols, rows) == [cols |-> cols, rows |-> rows]

\* county lookups: none; one whose first code matches row 1 twice over; one that
\* matches no row; one without the name column
Lookups ==
    { None,
      MkLookup(<<"county_code", "county_name">>,
               << <<CodeText(1, 1), <<"Alpha">> >>,
                  <<ZFillText(CodeText(1, 1), CountyWidth), <<"Beta">> >>,
                  <<Null, <<"Gamma">> >> >>),
      MkLookup(<<"county_code", "county_name">>, << <<CodeText(2, 5), <<"Delta">> >> >>),
      MkLookup(<<"county_code">>, << <<CodeText(1, 1)>> >>) }

\* the index builder's state in a specification that does not run it
IndexIdle ==
    /\ indexExists = FALSE
    /\ index = EmptyBag
    /\ entity_dataframes = <<>>
    /\ student_groups_df = None
    /\ tests_df = None
    /\ written = 0
    /\ buildCalls = 0
    /\ buildResult = "none"

\* the flow's state in a specification that does not run it
FlowIdle ==
    /\ dim_year = {}
    /\ pc = "idle"
    /\ cur_y = LatestYear
    /\ zip_urls = <<>>
    /\ deletes = [y \in Window |-> "unsubmitted"]
    /\ load_tasks = <<>>
    /\ buildSubmitted = FALSE
    /\ flowError = "none"
    /\ faults = 0

----------------------------------------------------------------------------
(* The loader specification: load_tests called up to MaxLoads times in a row on   *)
(* the same arguments                                                             *)

InitColumns ==
    \E S \in ColumnSets, rev \in BOOLEAN :
        /\ tests = MkTests(S, rev, MaxRows, [r \in 1..MaxRows |-> RowCodes(r)])
        /\ county_lookup \in {None, CHOOSE l \in Lookups : Height(l) = 3}
        /\ year_key = LatestYear

InitCodes ==
    \E seed \in CodeSeeds, nc \in 0..CountyWidth, nd \in 0..DistrictWidth,
       ns \in 0..SchoolWidth :
        /\ tests = MkTests(AllSource, FALSE, 1,
                     <<[k \in CodeColumns |->
                          IF k = "county_code" THEN CodeOrNull(nc, seed)
                          ELSE IF k = "district_code" THEN CodeOrNull(nd, seed)
                          ELSE CodeOrNull(ns, seed)]>>)
        /\ county_lookup = None
        /\ year_key = LatestYear

InitLookups ==
    \E n \in 0..MaxRows :
        /\ tests = MkTests(AllSource, FALSE, n, [r \in 1..n |-> RowCodes(r)])
        /\ county_lookup \in Lookups
        /\ year_key \in Window

InitLoad ==
    /\ ParserIdle /\ LocatorIdle /\ FetchIdle /\ SqlIdle
    /\ InitColumns \/ InitCodes \/ InitLookups
    /\ fact = OldFacts
    /\ df = None
    /\ loadCalls = 0
    /\ loadResult = "none"
    /\ IndexIdle
    /\ FlowIdle

LoadTests ==
    /\ loadCalls < MaxLoads
    /\ \E joinFails \in (IF county_lookup = None THEN {FALSE} ELSE BOOLEAN),
          copyFails \in BOOLEAN :
          \E res \in {load_tests(fact, tests, year_key, county_lookup, joinFails, copyFails)} :
              /\ fact' = res.fact
              /\ df' = res.df
              /\ loadResult' = res.result
    /\ loadCalls' = loadCalls + 1
    /\ UNCHANGED <<auxVars, tests, year_key, county_lookup, indexVars, flowVars>>

NextLoad == LoadTests

SpecLoad == InitLoad /\ [][NextLoad]_vars

----------------------------------------------------------------------------
(* Claims about load_tests *)

\* C1: running load_tests for year y with table T a second time leaves the
\* warehouse with the same rows for y as the first run left.
C1_LoadTwiceSameRows ==
    [][(loadResult = "loaded" /\ loadResult' = "loaded")
          => RowsOfYear(fact', year_key) = RowsOfYear(fact, year_key)]_vars

\* the source column that feeds canonical column f of the results table t: the key
\* of the rename map when the table has it, else the legacy synonym, else none ("")
SourceOf(t, f) ==
    LET keys == {i \in DOMAIN ren : ren[i][2] = f}
        key  == ren[CHOOSE i \in keys : TRUE][1]
    IN  IF keys = {} THEN ""
        ELSE IF HasCol(t, key) THEN key
        ELSE IF key = "total_students_tested" /\ HasCol(t, "students_tested")
             THEN "students_tested"
        ELSE IF key = "total_students_tested_with_scores"
                /\ HasCol(t, "total_tested_with_scores_at_reporting_level")
             THEN "total_tested_with_scores_at_reporting_level"
        ELSE IF key = "total_students_tested_with_scores" /\ HasCol(t, "students_with_scores")
             THEN "students_with_scores"
        ELSE ""

\* p is the text n padded on the left with zeros to width w
IsPadded(p, n, w) ==
    /\ Len(p) = w
    /\ SubSeq(p, w - Len(n) + 1, w) = n
    /\ \A i \in 1..(w - Len(n)) : p[i] = "0"

WidthOf(f) ==
    IF f = "county_code" THEN CountyWidth
    ELSE IF f = "district_code" THEN DistrictWidth ELSE SchoolWidth

\* the county names the lookup gives for the county code of row r of tests
LookupNames(r) ==
    IF county_lookup = None \/ ~HasCol(tests, "county_code")
       \/ ~HasCol(county_lookup, "county_name")
    THEN {}
    ELSE {Cell(county_lookup, q, "county_name") : q \in
            {q \in DOMAIN county_lookup.rows :
                /\ Cell(county_lookup, q, "county_code") # Null
                /\ Cell(tests, r, "county_code") # Null
                /\ ZFillText(Cell(county_lookup, q, "county_code"), CountyWidth)
                     = ZFillText(Cell(tests, r, "county_code"), CountyWidth)}}

\* value v is what field f of the fact row of row r of tests must hold, src being
\* the source column of f
FieldIsOf(v, f, r, src) ==
    IF f = "year_key" THEN v = YearCell(year_key)
    ELSE IF f = "county_name" THEN v = Null \/ v \in LookupNames(r)
    ELSE IF src = "" THEN v = Null
    ELSE IF f \in CodeColumns /\ Cell(tests, r, src) # Null
         THEN IsPadded(v, Cell(tests, r, src), WidthOf(f))
         ELSE v = Cell(tests, r, src)

RowIsOf(row, r, srcs) == \A f \in Range(CopyCols) : FieldIsOf(row[f], f, r, srcs[f])

NewRows == BagToSet(fact) \ BagToSet(OldFacts)

\* C9: the frame handed to the COPY has exactly the columns of the COPY list in its
\* order; every loaded row is the row of one input row, with each canonical field
\* fed by its own source column (codes padded), null when the source lacks that
\* column, year_key the load's year and county_name null or the lookup's name; and
\* every input row is loaded.
C9_CanonicalColumns ==
    LET srcs == [f \in Range(CopyCols) |-> SourceOf(tests, f)]
        new  == NewRows
    IN  /\ loadResult \in {"loaded", "failed"} => Reconcile(df).cols = CopyCols
        /\ \A row \in new : \E r \in DOMAIN tests.rows : RowIsOf(row, r, srcs)
        /\ loadResult = "loaded" =>
              \A r \in DOMAIN tests.rows : \E row \in new : RowIsOf(row, r, srcs)

\* a table without district_code and without the percentage of the first band was
\* loaded, with those fields null and the neighbouring fields filled
C9_Witness ==
    /\ loadResult = "loaded"
    /\ HasCol(tests, "test_id")
    /\ ~HasCol(tests, "district_code")
    /\ HasCol(tests, "school_code")
    /\ \E row \in NewRows :
          /\ row.district_code = Null
          /\ row.county_code # Null
          /\ row.school_code # Null
          /\ row.test_id = <<"test_id", "1">>

\* C10: for codes of natural width at most 2, 5 and 7 the composite code computed
\* by load_tests has length 14 and its slices [1..2], [3..7], [8..14] are the
\* county, district and school codes, each padded with zeros on the left.
C10_CompositeCode ==
    (loadResult \in {"loaded", "failed"} /\ CodeColumns \subseteq Range(tests.cols)) =>
        /\ HasCol(df, "cds_code")
        /\ Height(df) = Height(tests)
        /\ \A r \in DOMAIN tests.rows :
              LET c   == Cell(tests, r, "county_code")
                  d   == Cell(tests, r, "district_code")
                  s   == Cell(tests, r, "school_code")
                  cds == Cell(df, r, "cds_code")
              IN  (c # Null /\ d # Null /\ s # Null) =>
                     /\ Len(cds) = CountyWidth + DistrictWidth + SchoolWidth
                     /\ Len(cds) = 14
                     /\ IsPadded(SubSeq(cds, 1, 2), c, CountyWidth)
                     /\ IsPadded(SubSeq(cds, 3, 7), d, DistrictWidth)
                     /\ IsPadded(SubSeq(cds, 8, 14), s, SchoolWidth)
                     /\ SubSeq(cds, 1, 2) = Cell(df, r, "county_code")
                     /\ SubSeq(cds, 3, 7) = Cell(df, r, "district_code")
                     /\ SubSeq(cds, 8, 14) = Cell(df, r, "school_code")

\* a table whose three codes are all shorter than their widths has been reshaped
C10_Witness ==
    /\ loadResult = "loaded"
    /\ CodeColumns \subseteq Range(tests.cols)
    /\ HasCol(df, "cds_code")
    /\ \E r \in DOMAIN tests.rows :
          /\ Len(Cell(tests, r, "county_code")) = 1
          /\ Len(Cell(tests, r, "district_code")) = 3
          /\ Len(Cell(tests, r, "school_code")) = 4
          /\ Cell(tests, r, "county_code") # Null
          /\ Len(Cell(df, r, "cds_code")) = 14

\* C24: a results table without a test_id column is abandoned: the call writes
\* no row, raises no failure and leaves every row of the warehouse as it was
C24_NoTestIdSkipped ==
    (loadCalls > 0 /\ Height(tests) > 0 /\ ~HasCol(tests, "test_id"))
    => /\ loadResult = "skipped"
       /\ fact = OldFacts

\* load_tests has returned from a table of MaxRows rows that has codes and scores
\* but no test_id
C24_Witness ==
    /\ loadCalls > 0
    /\ loadResult = "skipped"
    /\ Height(tests) = MaxRows
    /\ ~HasCol(tests, "test_id")
    /\ HasCol(tests, "county_code")
    /\ HasCol(tests, "mean_scale_score")
    /\ fact = OldFacts

\* the lookup can be joined: the join of load_tests is tried
Joinable ==
    /\ county_lookup # None
    /\ HasCol(tests, "county_code")
    /\ {"county_code", "county_name"} \subseteq Range(county_lookup.cols)

\* the first county name the lookup gives for row r of tests, after padding
FirstName(r) ==
    LET hits == {q \in DOMAIN county_lookup.rows :
                    /\ Cell(county_lookup, q, "county_code") # Null
                    /\ Cell(tests, r, "county_code") # Null
                    /\ ZFillText(Cell(county_lookup, q, "county_code"), CountyWidth)
                         = ZFillText(Cell(tests, r, "county_code"), CountyWidth)}
    IN  Cell(county_lookup, CHOOSE q \in hits : \A p \in hits : q <= p, "county_name")

\* C25: a load that commits writes exactly one fact row per input row, whether
\* the join succeeded, found no match or failed; a row without a matching lookup
\* entry, and every row after a failed join, has county_name null, and a matched
\* row has the name of the first matching entry
C25_JoinKeepsRows ==
    [][(loadCalls' = loadCalls + 1 /\ loadResult' = "loaded")
       => LET added  == fact' (-) fact
              srcs   == [f \in Range(CopyCols) |-> SourceOf(tests, f)]
              failed == Joinable /\ ~HasCol(df', "county_name")
          IN  /\ BagCardinality(added) = Height(tests)
              /\ \A r \in DOMAIN tests.rows :
                    \E row \in BagToSet(added) :
                        /\ RowIsOf(row, r, srcs)
                        /\ added[row] = 1
                        /\ row.county_name =
                              IF Joinable /\ ~failed /\ LookupNames(r) # {}
                              THEN FirstName(r) ELSE Null]_vars

\* a load with a lookup that names the county of row 1 twice has committed one
\* row per input row, the first with the first name and the second, which the
\* lookup does not know, with a null
C25_Witness ==
    /\ loadResult = "loaded"
    /\ loadCalls = 1
    /\ Joinable
    /\ Height(county_lookup) = 3
    /\ Height(tests) = MaxRows
    /\ BagCardinality(fact (-) OldFacts) = MaxRows
    /\ \E row \in NewRows : row.county_name = <<"Alpha">>
    /\ \E row \in NewRows : row.county_name = Null

----------------------------------------------------------------------------
(* build_pinecone_index (flow.py:216-361) *)

\* r.get(c): the cell of column c of row r of frame t, None when t has no such column
Get(t, r, c) == IF HasCol(t, c) THEN Cell(t, r, c) ELSE Null

\* str(r.get(c) or "").strip()
StrOrEmpty(v) == IF v = Null THEN <<>> ELSE v

\* str(r.get(c, "")): the text "None" for a null cell, "" for a missing column
StrOf(t, r, c) ==
    IF ~HasCol(t, c) THEN <<>>
    ELSE IF Cell(t, r, c) = Null THEN <<"None">> ELSE Cell(t, r, c)

\* int(r.get(c, "")) raises for a missing column and for a null cell
IntRaises(t, r, c) == ~HasCol(t, c) \/ Cell(t, r, c) = Null

Sep == " | "

RECURSIVE StripSep(_)
\* label.strip(" |") on a label that starts with the county name: the separators
\* at its end go
StripSep(s) ==
    IF s # <<>> /\ s[Len(s)] = Sep THEN StripSep(SubSeq(s, 1, Len(s) - 1)) ELSE s

\* " | ".join([county_name, district_name, school_name]).strip(" |")
Label(cn, dn, sn) == StripSep(cn \o <<Sep>> \o dn \o <<Sep>> \o sn)

\* lines 272-292: the document of one entities row
EntityDoc(t, r, y) ==
    LET county_name   == StrOrEmpty(Get(t, r, "county_name")) \o <<" County">>
        district_name == StrOrEmpty(Get(t, r, "district_name"))
        school_name   == StrOrEmpty(Get(t, r, "school_name"))
        county_code   == ZFillText(StrOrEmpty(Get(t, r, "county_code")), CountyWidth)
        district_code == ZFillText(StrOrEmpty(Get(t, r, "district_code")), DistrictWidth)
        school_code   == ZFillText(StrOrEmpty(Get(t, r, "school_code")), SchoolWidth)
    IN  [text |-> Label(county_name, district_name, school_name)
                    \o <<Sep, "County:">> \o county_code
                    \o <<" District:">> \o district_code
                    \o <<" School:">> \o school_code,
         metadata |-> << <<"type", <<"entity">> >>,
                         <<"county_name", county_name>>,
                         <<"district_name", district_name>>,
                         <<"school_name", school_name>>,
                         <<"county_code", county_code>>,
                         <<"district_code", district_code>>,
                         <<"school_code", school_code>>,
                         <<"year_key", YearCell(y)>> >>]

\* lines 268-292: the documents of the entities frames, every row of every frame
EntityDocs(eds) ==
    Flatten([k \in DOMAIN eds |->
                LET y == eds[k][1]
                    t == eds[k][2]
                IN  IF t = None \/ Height(t) = 0 THEN <<>>
                    ELSE [r \in DOMAIN t.rows |-> EntityDoc(t, r, y)]])

\* lines 297-310
SubgroupDocs(sg) ==
    IF sg = None \/ Height(sg) = 0 THEN <<>>
    ELSE [r \in DOMAIN sg.rows |->
            [text |-> StrOf(sg, r, "demographic_name") \o <<" (Subgroup ID: ">>
                        \o Get(sg, r, "demographic_id_num") \o <<", Category: ">>
                        \o StrOf(sg, r, "student_group") \o <<")">>,
             metadata |-> << <<"type", <<"subgroup">> >>,
                             <<"demographic_name", StrOf(sg, r, "demographic_name")>>,
                             <<"demographic_id", Get(sg, r, "demographic_id_num")>>,
                             <<"student_group", StrOf(sg, r, "student_group")>> >>]]

\* lines 315-326
TestDocs(td) ==
    IF td = None \/ Height(td) = 0 THEN <<>>
    ELSE [r \in DOMAIN td.rows |->
            [text |-> StrOf(td, r, "test_name") \o <<" (Test ID: ">>
                        \o Get(td, r, "test_id_num") \o <<")">>,
             metadata |-> << <<"type", <<"test">> >>,
                             <<"test_name", StrOf(td, r, "test_name")>>,
                             <<"test_id", Get(td, r, "test_id_num")>> >>]]

\* line 331
grades == <<3, 4, 5, 6, 7, 8, 11, 13>>

\* lines 332-335
GradeDocs ==
    [i \in DOMAIN grades |->
        [text |-> IF grades[i] # 13 THEN <<"Grade ", ToString(grades[i])>> ELSE <<"All Grades">>,
         metadata |-> << <<"type", <<"grade">> >>, <<"grade", <<ToString(grades[i])>> >> >>]]

\* lines 265-335: texts and metadatas, document by document
Documents(eds, sg, td) == EntityDocs(eds) \o SubgroupDocs(sg) \o TestDocs(td) \o GradeDocs

\* an int(...) of lines 300 and 318 raises
DocumentsRaise(sg, td) ==
    \/ sg # None /\ \E r \in DOMAIN sg.rows : IntRaises(sg, r, "demographic_id_num")
    \/ td # None /\ \E r \in DOMAIN td.rows : IntRaises(td, r, "test_id_num")

\* range(0, len(texts), batch_size): the number of batches
NumBatches(docs) == (Len(docs) + batch_size - 1) \div batch_size

Min(a, b) == IF a < b THEN a ELSE b

\* batch writes that were taken back when a later one failed
FirstBatchesUndone(docs, k) == IF k * batch_size < Len(docs) THEN <<>> ELSE docs

\* texts[i:i+batch_size] of the first k batches
FirstBatches(docs, k) == SubSeq(docs, 1, Min(k * batch_size, Len(docs)))

\* the upload with the clearing left out
ClearedKeep(existed, idx) == idx

\* lines 344-350: the prior contents are cleared when the index already existed;
\* NotFoundException of an empty index is caught
Cleared(existed, idx) == IF existed THEN EmptyBag ELSE idx

\* a batch loop that catches the failure of add_texts and goes on to report success
LoopResultSwallowed(failAt, nb) == "completed"

\* lines 355-361: add_texts is called with no try around it, so the failure of
\* batch failAt ends the task as failed; failAt = nb + 1 stands for no failure
LoopResult(failAt, nb) == IF failAt <= nb THEN "failed" ELSE "completed"

\* build_pinecone_index on an index (exists, idx): failAt = 0 is a failure of the
\* clearing call, failAt in 1..nb the failure of that batch's add_texts
build_pinecone_index(exists, idx, eds, sg, td, failAt) ==
    LET created == IF exists THEN idx ELSE EmptyBag
        docs    == Documents(eds, sg, td)
        nb      == NumBatches(docs)
        done    == Min(failAt - 1, nb)
    IN  IF DocumentsRaise(sg, td)
        THEN [index |-> created, written |-> 0, result |-> "failed"]
        ELSE IF docs = <<>>
        THEN [index |-> created, written |-> 0, result |-> "completed"]
        ELSE IF exists /\ failAt = 0
        THEN [index |-> created, written |-> 0, result |-> "failed"]
        ELSE [index   |-> Cleared(exists, created) (+) BagOfSeq(FirstBatches(docs, done)),
              written |-> done,
              result  |-> LoopResult(failAt, nb)]

----------------------------------------------------------------------------
(* Inputs of the index specification *)

RECURSIVE Digits(_)
\* the decimal digits of a natural number
Digits(n) == IF n < 10 THEN <<Digit[n + 1]>> ELSE Digits(n \div 10) \o <<Digit[(n % 10) + 1]>>

EntityColumns ==
    << "county_code", "district_code", "school_code", "type_id", "test_year",
       "county_name", "district_name", "school_name", "zip_code", "year_key" >>

\* the entities row of school i of district d: d = 0 is the county row, i = 0 a
\* district row
EntityRow(d, i, y) ==
    << <<"1">>, Digits(d), Digits(i), <<"7">>, YearCell(y),
       <<"Alameda">>, IF d = 0 THEN Null ELSE <<"District ", ToString(d)>>,
       IF i = 0 THEN Null ELSE <<"School ", ToString(i)>>, Null, YearCell(y) >>

\* the entities frame of n rows collected for year y
Entities(n, y) ==
    [cols |-> EntityColumns, rows |-> [i \in 1..n |-> EntityRow((i + 1) \div 2, i - 1, y)]]

\* the frame with its first row repeated at the end
WithRepeat(t) == [t EXCEPT !.rows = Append(t.rows, t.rows[1])]

\* what the orchestrator may hand over: nothing, one frame, one frame with a
\* repeated row, the frames of two archives of the year, one frame that fills
\* more than one batch
EntityInputs ==
    { <<>>,
      << <<LatestYear, Entities(2, LatestYear)>> >>,
      << <<LatestYear, WithRepeat(Entities(2, LatestYear))>> >>,
      << <<LatestYear, Entities(2, LatestYear)>>, <<LatestYear, Entities(3, LatestYear)>> >>,
      << <<LatestYear, Entities(ManyEntities, LatestYear)>> >>,
      << <<LatestYear, Entities(ManyEntities, LatestYear)>>,
         <<LatestYear, Entities(ManyEntities, LatestYear)>>,
         <<LatestYear, Entities(ManyEntities, LatestYear)>> >> }

StudentGroupInputs ==
    { None,
      [cols |-> <<"demographic_id", "demographic_id_num", "demographic_name", "student_group">>,
       rows |-> << << <<"001">>, <<"1">>, <<"All Students">>, <<"All Students">> >>,
                   << <<"003">>, <<"3">>, <<"Male">>, <<"Gender">> >> >>],
      [cols |-> <<"demographic_id", "demographic_id_num", "demographic_name", "student_group">>,
       rows |-> << << <<"001">>, Null, <<"All Students">>, <<"All Students">> >> >>] }

TestInputs ==
    { None,
      [cols |-> <<"test_id", "test_id_num", "test_name">>,
       rows |-> << << <<"01">>, <<"1">>, <<"SB - English Language Arts/Literacy">> >>,
                   << <<"02">>, <<"2">>, <<"SB - Mathematics">> >> >>] }

\* documents a run of an earlier year left in the index
StaleDocs ==
    BagOfSeq(Documents(<< <<LatestYear - 1, Entities(3, LatestYear - 1)>> >>, None, None))

----------------------------------------------------------------------------
(* The index specification: build_pinecone_index run up to MaxBuilds times in a    *)
(* row on the same arguments                                                      *)

LoaderIdle ==
    /\ fact = OldFacts
    /\ tests = None
    /\ year_key = LatestYear
    /\ county_lookup = None
    /\ df = None
    /\ loadCalls = 0
    /\ loadResult = "none"

InitIndex ==
    /\ ParserIdle /\ LocatorIdle /\ FetchIdle /\ SqlIdle
    /\ entity_dataframes \in EntityInputs
    /\ student_groups_df \in StudentGroupInputs
    /\ tests_df \in TestInputs
    /\ \/ indexExists = FALSE /\ index = EmptyBag
       \/ indexExists = TRUE /\ index \in {EmptyBag, StaleDocs}
    /\ written = 0
    /\ buildCalls = 0
    /\ buildResult = "none"
    /\ LoaderIdle
    /\ FlowIdle

BuildIndex ==
    /\ buildCalls < MaxBuilds
    /\ \E failAt \in 0..(NumBatches(Documents(entity_dataframes, student_groups_df, tests_df)) + 1) :
          \E res \in {build_pinecone_index(indexExists, index, entity_dataframes,
                                           student_groups_df, tests_df, failAt)} :
              /\ index' = res.index
              /\ written' = res.written
              /\ buildResult' = res.result
    /\ indexExists' = TRUE
    /\ buildCalls' = buildCalls + 1
    /\ UNCHANGED <<auxVars, entity_dataframes, student_groups_df, tests_df, fact, loaderVars, flowVars>>

NextIndex == BuildIndex

SpecIndex == InitIndex /\ [][NextIndex]_vars

----------------------------------------------------------------------------
(* Claims about build_pinecone_index *)

\* C6: after a run of the builder that completed, the index holds exactly the
\* documents that run generated, each as often as the run generated it, whatever
\* the index held before; so a second run on the same inputs changes nothing.
C6_IndexIsThisRun ==
    buildResult = "completed" =>
        index = BagOfSeq(Documents(entity_dataframes, student_groups_df, tests_df))

\* a second run completed on an index that existed before the first, over more
\* than one batch
C6_Witness ==
    /\ buildCalls = 2
    /\ buildResult = "completed"
    /\ written > 1
    /\ BagCardinality(index) > batch_size

IsEntityDoc(d) == d.metadata[1] = <<"type", <<"entity">> >>

EntityKey(d) == <<d.metadata[5][2], d.metadata[6][2], d.metadata[7][2]>>

\* C7: after a run, no two entity documents of the index have the same
\* (county_code, district_code, school_code).
C7_EntitiesDeduplicated ==
    buildResult = "completed" =>
        \A d \in BagToSet(index) : IsEntityDoc(d) =>
            /\ CopiesIn(d, index) = 1
            /\ \A e \in BagToSet(index) :
                  (IsEntityDoc(e) /\ EntityKey(e) = EntityKey(d)) => e = d

\* C8: a run in which a batch write failed does not end as completed: the run ends
\* completed only with every batch written, and ends failed when a batch is left
\* unwritten.
C8_BatchFailurePropagates ==
    LET nb == NumBatches(Documents(entity_dataframes, student_groups_df, tests_df))
    IN  /\ buildResult = "completed" => written = nb
        /\ (buildCalls > 0 /\ written < nb) => buildResult = "failed"

\* the second of three batches failed: one batch is in the index and the run failed
C8_Witness ==
    /\ buildResult = "failed"
    /\ written = 1
    /\ NumBatches(Documents(entity_dataframes, student_groups_df, tests_df)) = 3
    /\ BagCardinality(index) = batch_size

\* C29: a run that failed at a batch write after the prior contents were cleared
\* leaves in the index exactly the documents of the batches written before the
\* failure, a prefix of the new document list of written * batch_size documents,
\* and none of the prior documents
C29_PrefixAfterFailure ==
    [][(/\ buildCalls' = buildCalls + 1
        /\ buildResult' = "failed"
        /\ written' >= 1 \/ index' # index)
       => LET docs == Documents(entity_dataframes, student_groups_df, tests_df)
          IN  /\ written' < NumBatches(docs)
              /\ index' = BagOfSeq(SubSeq(docs, 1, written' * batch_size))
              /\ BagCardinality(index') = written' * batch_size]_vars

\* the third of three batches failed on an index that existed: the index holds
\* the two batches written and none of the documents it held before
C29_Witness ==
    /\ buildResult = "failed"
    /\ written = 2
    /\ BagCardinality(index) = 2 * batch_size
    /\ BagToSet(index) \cap BagToSet(StaleDocs) = {}

----------------------------------------------------------------------------
(* parse_zip_caret (transforms.py:5-47) *)

\* _norm on the headers the publisher's files use: lower case, every run of other
\* characters one underscore; a name already in that form is left as it is
NormTable ==
    << <<"County Code", "county_code">>, <<"District Code", "district_code">>,
       <<"School Code", "school_code">>, <<"Type Id", "type_id">>,
       <<"Test Year", "test_year">>, <<"County Name", "county_name">>,
       <<"District Name", "district_name">>, <<"School Name", "school_name">>,
       <<"Zip Code", "zip_code">>,
       <<"Test Type", "test_type">>, <<"Test ID", "test_id">>,
       <<"Student Group ID", "student_group_id">>,
       <<"Mean Scale Score", "mean_scale_score">>,
       <<"Total Students Tested with Scores", "total_students_tested_with_scores">>,
       <<"Total Tested with Scores at Reporting Level",
         "total_tested_with_scores_at_reporting_level">> >>

NormName(c) ==
    IF \E i \in DOMAIN NormTable : NormTable[i][1] = c
    THEN NormTable[CHOOSE i \in DOMAIN NormTable : NormTable[i][1] = c][2]
    ELSE c

\* _norm(df)
Norm(t) == [t EXCEPT !.cols = [i \in DOMAIN t.cols |-> NormName(t.cols[i])]]

\* df.rename raises when two headers normalize to one name
NormRaises(t) ==
    \E i, j \in DOMAIN t.cols : i # j /\ NormName(t.cols[i]) = NormName(t.cols[j])

\* lines 36-37: the condition of the if
IsTests(cols) ==
    /\ {"test_type", "test_id", "student_group_id", "mean_scale_score"} \subseteq cols
    /\ ("total_students_tested_with_scores" \in cols
        \/ "total_tested_with_scores_at_reporting_level" \in cols)

\* lines 39-40: the condition of the elif
IsEntities(cols) ==
    /\ {"county_code", "district_code", "school_code", "type_id", "test_year"} \subseteq cols
    /\ "test_type" \notin cols

\* lines 36-43: the class of a frame by its normalized columns
Classify(cols) ==
    IF IsTests(cols) THEN "tests"
    ELSE IF IsEntities(cols) THEN "entities"
    ELSE "none"

\* a parser that tested the two signatures independently of each other
StoreIndependent(o, d) ==
    LET cols == Range(d.cols)
    IN  [o EXCEPT !.tests = IF IsTests(cols) THEN d ELSE @,
                  !.entities =
                      IF {"county_code", "district_code", "school_code", "type_id",
                          "test_year"} \subseteq cols
                      THEN d ELSE @]

\* lines 35-43: the frame is stored under its class, or dropped
Store(o, d) ==
    LET class == Classify(Range(d.cols))
    IN  IF class = "tests" THEN [o EXCEPT !.tests = d]
        ELSE IF class = "entities" THEN [o EXCEPT !.entities = d]
        ELSE o

RECURSIVE ParseEntries(_, _)
\* lines 24-43: the loop over the archive's entries; an entry that cannot be read
\* or renamed raises, which leaves the loop with what was stored so far
ParseEntries(entries, o) ==
    IF entries = <<>> THEN o
    ELSE LET e == Head(entries)
         IN  IF e.ext \notin {"csv", "txt"} THEN ParseEntries(Tail(entries), o)
             ELSE IF ~e.readable \/ NormRaises(e.frame) THEN [o EXCEPT !.raised = TRUE]
             ELSE ParseEntries(Tail(entries), Store(o, Norm(e.frame)))

\* lines 19-43: the body of the try; a payload that is no ZIP raises at line 20
ParseBody(archive) ==
    IF archive.corrupt THEN [entities |-> None, tests |-> None, raised |-> TRUE]
    ELSE ParseEntries(archive.entries, [entities |-> None, tests |-> None, raised |-> FALSE])

\* an except clause that let the exception through to the caller
ExceptReraise(body) == body

\* lines 44-47: the exception is logged and out is returned
Except(body) == [body EXCEPT !.raised = FALSE]

\* parse_zip_caret(zip_bytes): the contents returned, raised telling whether an
\* exception reached the caller
parse_zip_caret(archive) == Except(ParseBody(archive))

----------------------------------------------------------------------------
(* caaspp_last_3_years (flow.py:363-451) and the tasks it submits *)

\* the label ensure_years gives year y
YearLabel(y) == <<"AY ", ToString(y), "-", ToString(y + 1)>>

\* an upsert that wrote the label also over a row that exists
ensure_years_update(dim) ==
    {row \in dim : row.year_key \notin Window}
    \cup {[year_key |-> y, label |-> YearLabel(y)] : y \in Window}

\* ensure_years: INSERT ... ON CONFLICT (year_key) DO NOTHING for each year of the window
ensure_years(dim) ==
    dim \cup {[year_key |-> y, label |-> YearLabel(y)] :
                y \in {y \in Window : \A row \in dim : row.year_key # y}}

\* a delete that removed no row
delete_scores_kept(f, y) == f

\* delete_scores_for_year: DELETE FROM analytics.fact_scores WHERE year_key = :y
delete_scores_for_year(f, y) ==
    LET kept == {row \in DOMAIN f : row.year_key # YearCell(y)}
    IN  [row \in kept |-> f[row]]

\* lines 424-427: the county lookup from the archive's entities
CountyLookupOf(ents) ==
    IF ents # None /\ {"county_code", "county_name"} \subseteq Range(ents.cols)
    THEN UniqueFirst(Select(ents, <<"county_code", "county_name">>))
    ELSE None

\* lines 437-438: the entities frame kept for the index
KeptEntities(ents, y) ==
    LET keep == SelectSeq(<<"county_code", "district_code", "school_code", "type_id",
                            "test_year", "county_name", "district_name", "school_name",
                            "zip_code">>,
                          LAMBDA c : HasCol(ents, c))
        sel  == Select(ents, keep)
    IN  WithColumn(sel, "year_key", ConstCol(sel, YearCell(y)))

\* task.wait() on a failed task that raised the task's failure
WaitOutcomeRaising(state) == IF state = "failed" THEN "raise" ELSE "continue"

\* lines 446-447: task.wait() returns once the task has settled, however it ended
WaitOutcome(state) == "continue"

\* a loop that waited for no task
WaitedForNone(tasks) == TRUE

\* lines 446-447: the loop over load_tasks has passed once every task has settled
Waited(tasks) == \A i \in DOMAIN tasks : tasks[i].state # "pending"

\* where the loop over the years goes after year y
AfterYear(y) == IF y = LatestYear THEN "wait" ELSE "year"

----------------------------------------------------------------------------
(* Inputs of the flow specification *)

\* the entities file of an archive, with the publisher's headers
EntitiesFile ==
    [cols |-> <<"County Code", "District Code", "School Code", "Type Id", "Test Year",
                "County Name", "District Name", "School Name", "Zip Code">>,
     rows |-> << << CodeText(1, 3), <<"0">>, <<"0">>, <<"5">>, <<"y">>,
                    <<"Alameda">>, Null, Null, Null >>,
                 << CodeText(1, 3), CodeText(3, 3), CodeText(7, 3), <<"7">>, <<"y">>,
                    <<"Alameda">>, <<"Unified">>, <<"High">>, <<"94501">> >> >>]

\* the results file of archive k: one row, with codes of its own
ResultsFile(k) ==
    MkTests(AllSource \ {"county_name", "total_students_tested",
                         "total_students_tested_with_scores", "students_with_scores"},
            FALSE, 1, <<RowCodes(k + 2)>>)

\* what a URL of a listing page may serve: an archive with both files, one with
\* the results file alone, a payload that is no ZIP
ArchiveSamples ==
    { [corrupt |-> FALSE,
       entries |-> << [ext |-> "pdf", readable |-> TRUE, frame |-> None],
                      [ext |-> "txt", readable |-> TRUE, frame |-> EntitiesFile],
                      [ext |-> "csv", readable |-> TRUE, frame |-> ResultsFile(1)] >>],
      [corrupt |-> FALSE,
       entries |-> << [ext |-> "csv", readable |-> TRUE, frame |-> ResultsFile(2)] >>],
      [corrupt |-> TRUE, entries |-> <<>>] }

\* the reference frames of a run: both files unparsable, or both parsed
ReferenceInputs ==
    { <<None, None>>,
      <<CHOOSE sg \in StudentGroupInputs : Height(sg) = 2,
        CHOOSE td \in TestInputs : Height(td) = 2>> }

\* the archive lists of at most b archives
ArchiveLists(b) ==
    UNION {[1..n -> ArchiveSamples] : n \in 0..b}

----------------------------------------------------------------------------
(* The flow specification: one run of caaspp_last_3_years and of its tasks *)

\* analytics.dim_year before the run: a row inside the window and one before it,
\* with labels of their own
DimBefore ==
    {[year_key |-> LatestYear - 1, label |-> <<"AY custom">>],
     [year_key |-> LatestYear - last_years, label |-> <<"AY old">>]}

InitRun ==
    /\ ParserIdle /\ LocatorIdle /\ FetchIdle /\ SqlIdle
    /\ fact = OldFacts
    /\ dim_year = DimBefore
    /\ indexExists = TRUE
    /\ index = StaleDocs
    /\ entity_dataframes = <<>>
    /\ student_groups_df = None
    /\ tests_df = None
    /\ written = 0
    /\ buildCalls = 0
    /\ buildResult = "none"
    /\ pc = "start"
    /\ cur_y = LatestYear - last_years + 1
    /\ zip_urls = <<>>
    /\ deletes = [y \in Window |-> "unsubmitted"]
    /\ load_tasks = <<>>
    /\ buildSubmitted = FALSE
    /\ flowError = "none"
    /\ faults = 0
    /\ tests = None
    /\ year_key = LatestYear
    /\ county_lookup = None
    /\ df = None
    /\ loadCalls = 0
    /\ loadResult = "none"

\* lines 366-400: ensure_years, then the two reference files; http_get is called
\* directly, so its failure is the flow's
Start ==
    /\ pc = "start"
    /\ dim_year' = ensure_years(dim_year)
    /\ \/ /\ faults < MaxFaults
          /\ faults' = faults + 1
          /\ pc' = "aborted"
          /\ flowError' = "reference_fetch"
          /\ UNCHANGED <<student_groups_df, tests_df>>
       \/ /\ \E ref \in ReferenceInputs :
                /\ student_groups_df' = ref[1]
                /\ tests_df' = ref[2]
          /\ pc' = "year"
          /\ UNCHANGED <<flowError, faults>>
    /\ UNCHANGED <<auxVars, fact, loaderVars, indexExists, index, entity_dataframes, written,
                   buildCalls, buildResult, cur_y, zip_urls, deletes, load_tasks,
                   buildSubmitted>>

\* lines 405-412: submit the year's delete, fetch the listing page, locate the
\* archives, at most b of them; zips.result() raises when the fetch task failed
BeginYearWith(b) ==
    /\ pc = "year"
    /\ deletes' = [deletes EXCEPT ![cur_y] = "pending"]
    /\ \/ /\ faults < MaxFaults
          /\ faults' = faults + 1
          /\ pc' = "aborted"
          /\ flowError' = "listing_fetch"
          /\ UNCHANGED <<zip_urls, cur_y>>
       \/ \E urls \in ArchiveLists(b) :
             /\ zip_urls' = urls
             /\ IF urls = <<>>
                THEN /\ pc' = AfterYear(cur_y)
                     /\ cur_y' = IF cur_y = LatestYear THEN cur_y ELSE cur_y + 1
                ELSE /\ pc' = "archive"
                     /\ UNCHANGED cur_y
             /\ UNCHANGED <<flowError, faults>>
    /\ UNCHANGED <<auxVars, fact, loaderVars, indexVars, dim_year, load_tasks, buildSubmitted>>

\* the year's first steps in a run of at most MaxArchives archives
BeginYear == BeginYearWith(MaxArchives - Len(load_tasks))

\* lines 414-442: one archive of the year; zb.result() raises when the fetch failed,
\* and so would an exception that parse_zip_caret let through
ProcessArchive ==
    /\ pc = "archive"
    /\ \/ /\ faults < MaxFaults
          /\ faults' = faults + 1
          /\ pc' = "aborted"
          /\ flowError' = "archive_fetch"
          /\ UNCHANGED <<zip_urls, cur_y, load_tasks, entity_dataframes>>
       \/ LET parts == parse_zip_caret(Head(zip_urls))
              ents  == parts.entities
          IN  IF parts.raised
              THEN /\ pc' = "aborted"
                   /\ flowError' = "parse"
                   /\ UNCHANGED <<zip_urls, cur_y, load_tasks, entity_dataframes, faults>>
              ELSE /\ load_tasks' = Append(load_tasks,
                          [year |-> cur_y, tests |-> parts.tests,
                           lookup |-> CountyLookupOf(ents), state |-> "pending"])
                   /\ entity_dataframes' =
                          IF cur_y = LatestYear /\ ents # None /\ Height(ents) > 0
                          THEN Append(entity_dataframes, <<cur_y, KeptEntities(ents, cur_y)>>)
                          ELSE entity_dataframes
                   /\ zip_urls' = Tail(zip_urls)
                   /\ IF Tail(zip_urls) = <<>>
                      THEN /\ pc' = AfterYear(cur_y)
                           /\ cur_y' = IF cur_y = LatestYear THEN cur_y ELSE cur_y + 1
                      ELSE UNCHANGED <<pc, cur_y>>
                   /\ UNCHANGED <<flowError, faults>>
    /\ UNCHANGED <<auxVars, fact, loaderVars, indexExists, index, student_groups_df, tests_df,
                   written, buildCalls, buildResult, dim_year, deletes, buildSubmitted>>

\* lines 444-451: wait for every load task, then submit the index build
WaitAndBuild ==
    /\ pc = "wait"
    /\ Waited(load_tasks)
    /\ IF \E i \in DOMAIN load_tasks : WaitOutcome(load_tasks[i].state) = "raise"
       THEN /\ pc' = "aborted"
            /\ flowError' = "load_task"
            /\ UNCHANGED buildSubmitted
       ELSE /\ pc' = "done"
            /\ buildSubmitted' = TRUE
            /\ UNCHANGED flowError
    /\ UNCHANGED <<auxVars, fact, loaderVars, indexVars, dim_year, cur_y, zip_urls, deletes, load_tasks,
                   faults>>

\* the failures one step adds to the run's count
Count(b) == IF b THEN 1 ELSE 0

\* the delete task of year y runs: its transaction commits or fails
DeleteRun(y) ==
    /\ deletes[y] = "pending"
    /\ \/ /\ fact' = delete_scores_for_year(fact, y)
          /\ deletes' = [deletes EXCEPT ![y] = "completed"]
          /\ UNCHANGED faults
       \/ /\ faults < MaxFaults
          /\ faults' = faults + 1
          /\ deletes' = [deletes EXCEPT ![y] = "failed"]
          /\ UNCHANGED fact
    /\ UNCHANGED <<auxVars, loaderVars, indexVars, dim_year, pc, cur_y, zip_urls, load_tasks,
                   buildSubmitted, flowError>>

\* load task i runs
LoadRun(i) ==
    /\ load_tasks[i].state = "pending"
    /\ \E joinFails \in (IF load_tasks[i].lookup = None THEN {FALSE} ELSE BOOLEAN),
          copyFails \in BOOLEAN :
          \E res \in {load_tests(fact, load_tasks[i].tests, load_tasks[i].year,
                                 load_tasks[i].lookup, joinFails, copyFails)} :
              /\ faults' = faults + Count(joinFails) + Count(copyFails)
              /\ faults' <= MaxFaults
              /\ fact' = res.fact
              /\ load_tasks' = [load_tasks EXCEPT ![i].state =
                                   IF res.result = "failed" THEN "failed" ELSE "completed"]
    /\ UNCHANGED <<auxVars, loaderVars, indexVars, dim_year, pc, cur_y, zip_urls, deletes,
                   buildSubmitted, flowError>>

\* the submitted index build runs
BuildRun ==
    /\ buildSubmitted
    /\ buildCalls = 0
    /\ \E failAt \in 0..(NumBatches(Documents(entity_dataframes, student_groups_df, tests_df)) + 1) :
          \E res \in {build_pinecone_index(indexExists, index, entity_dataframes,
                                           student_groups_df, tests_df, failAt)} :
              /\ faults' = faults + Count(res.result = "failed")
              /\ faults' <= MaxFaults
              /\ index' = res.index
              /\ written' = res.written
              /\ buildResult' = res.result
    /\ indexExists' = TRUE
    /\ buildCalls' = 1
    /\ UNCHANGED <<auxVars, fact, loaderVars, entity_dataframes, student_groups_df, tests_df,
                   dim_year, pc, cur_y, zip_urls, deletes, load_tasks, buildSubmitted,
                   flowError>>

NextRun ==
    \/ Start
    \/ BeginYear
    \/ ProcessArchive
    \/ WaitAndBuild
    \/ \E y \in Window : DeleteRun(y)
    \/ \E i \in DOMAIN load_tasks : LoadRun(i)
    \/ BuildRun

SpecRun == InitRun /\ [][NextRun]_vars

Spec == SpecRun

----------------------------------------------------------------------------
(* The last year of a run, with several archives on its listing page *)

\* the run as it enters the last year of the window: the earlier years had no
\* archive and their deletes have completed
InitYear ==
    /\ ParserIdle /\ LocatorIdle /\ FetchIdle /\ SqlIdle
    /\ fact = RowsOfYear(OldFacts, LatestYear)
    /\ dim_year = ensure_years(DimBefore)
    /\ indexExists = TRUE
    /\ index = StaleDocs
    /\ entity_dataframes = <<>>
    /\ student_groups_df = None
    /\ tests_df = None
    /\ written = 0
    /\ buildCalls = 0
    /\ buildResult = "none"
    /\ pc = "year"
    /\ cur_y = LatestYear
    /\ zip_urls = <<>>
    /\ deletes = [y \in Window |-> IF y = LatestYear THEN "unsubmitted" ELSE "completed"]
    /\ load_tasks = <<>>
    /\ buildSubmitted = FALSE
    /\ flowError = "none"
    /\ faults = 0
    /\ tests = None
    /\ year_key = LatestYear
    /\ county_lookup = None
    /\ df = None
    /\ loadCalls = 0
    /\ loadResult = "none"

NextYear ==
    \/ BeginYearWith(MaxYearArchives)
    \/ ProcessArchive
    \/ WaitAndBuild
    \/ \E y \in Window : DeleteRun(y)
    \/ \E i \in DOMAIN load_tasks : LoadRun(i)
    \/ BuildRun

SpecYear == InitYear /\ [][NextYear]_vars

----------------------------------------------------------------------------
(* Properties of the flow *)

\* the load tasks submitted for year y
LoadsOf(y) == {i \in DOMAIN load_tasks : load_tasks[i].year = y}

\* year y is still being replaced: the loop is locating or fetching its archives,
\* or a load task of it has not settled
YearOpen(y) ==
    \/ pc \in {"year", "archive"} /\ cur_y = y
    \/ \E i \in LoadsOf(y) : load_tasks[i].state = "pending"

\* the run of the flow function has ended, by returning or by an exception
FlowEnded == pc \in {"done", "aborted"}

\* C2: when the bulk insert of a year's load has failed (and no other load of the
\* year has committed rows), the warehouse holds for that year exactly the rows
\* it held before the year's delete and load started
C2_FailedLoadKeepsYear ==
    \A y \in Window :
        (/\ \E i \in LoadsOf(y) : load_tasks[i].state = "failed"
         /\ \A i \in LoadsOf(y) : load_tasks[i].state # "completed")
        => RowsOfYear(fact, y) = RowsOfYear(OldFacts, y)

\* C3: at every point of a run, a year whose rows are no longer the rows from
\* before the run is not a year whose replacement is still uncommitted
C3_NoHalfReplacedYear ==
    \A y \in Window :
        YearOpen(y) => RowsOfYear(fact, y) = RowsOfYear(OldFacts, y)

\* C4: a run that ended without a failure of the reference files has processed
\* every year of the window and submitted the index build, also when locating or
\* fetching the archives of a year failed
C4_YearFailureIsolated ==
    (FlowEnded /\ flowError # "reference_fetch")
    => /\ \A y \in Window : deletes[y] # "unsubmitted"
       /\ buildSubmitted

\* C5: a failed load task does not end the run: a run that no failed fetch ended
\* has returned, with every year processed, every load task settled and the index
\* build submitted
C5_LoadFailureIsolated ==
    (FlowEnded /\ flowError \notin {"reference_fetch", "listing_fetch", "archive_fetch"})
    => /\ pc = "done"
       /\ buildSubmitted
       /\ \A y \in Window : deletes[y] # "unsubmitted"
       /\ \A i \in DOMAIN load_tasks : load_tasks[i].state # "pending"

\* a run that returned with a failed load task among its tasks and the build submitted
C5_Witness ==
    /\ pc = "done"
    /\ buildSubmitted
    /\ \E i \in DOMAIN load_tasks : load_tasks[i].state = "failed"
    /\ \A y \in Window : deletes[y] # "unsubmitted"

\* C22: the delete of a year's prior facts has completed before a load of that
\* year inserts rows, and the delete removes no row that the run has inserted
C22_DeleteBeforeLoad ==
    [][/\ \A i \in DOMAIN load_tasks :
             (load_tasks[i].state = "pending" /\ load_tasks'[i].state # "pending"
              /\ fact' # fact)
             => deletes[load_tasks[i].year] = "completed"
       /\ \A y \in Window :
             (deletes[y] = "pending" /\ deletes'[y] = "completed")
             => RowsOfYear(fact, y) \sqsubseteq RowsOfYear(OldFacts, y)]_vars

\* C23: the index build is submitted, and so runs, only when the loop over the
\* years has ended and every load task submitted has settled
C23_BuildAfterLoads ==
    (buildSubmitted \/ buildCalls > 0)
    => /\ pc = "done"
       /\ \A y \in Window : deletes[y] # "unsubmitted"
       /\ \A i \in DOMAIN load_tasks : load_tasks[i].state # "pending"

\* the build has run, and the load tasks the run submitted had settled
C23_Witness ==
    /\ buildCalls = 1
    /\ load_tasks # <<>>
    /\ \A i \in DOMAIN load_tasks : load_tasks[i].state \in {"completed", "failed"}

\* the loop over the years has passed year y and found no archive for it
PassedEmpty(y) ==
    /\ cur_y > y \/ pc \in {"wait", "done"}
    /\ LoadsOf(y) = {}

\* C26: a year whose listing page yields no archive gets no load task, its delete
\* is submitted all the same, and once that delete has completed the fact table
\* holds no row of the year
C26_EmptyYearDeleted ==
    \A y \in Window :
        PassedEmpty(y)
        => /\ deletes[y] # "unsubmitted"
           /\ deletes[y] = "completed" => DOMAIN RowsOfYear(fact, y) = {}

\* the run has returned, a year that held rows before the run had no archive, and
\* its rows are gone
C26_Witness ==
    /\ pc = "done"
    /\ \E y \in Window :
          /\ PassedEmpty(y)
          /\ DOMAIN RowsOfYear(OldFacts, y) # {}
          /\ deletes[y] = "completed"
          /\ DOMAIN RowsOfYear(fact, y) = {}

\* the rows the load tasks of year y insert, one task after the other, when no
\* join and no insert fails
Accumulated(tasks, y) ==
    LET acc[n \in 0..Len(tasks)] ==
            IF n = 0 THEN EmptyBag
            ELSE IF tasks[n].year = y
            THEN load_tests(acc[n - 1], tasks[n].tests, y, tasks[n].lookup, FALSE, FALSE).fact
            ELSE acc[n - 1]
    IN  acc[Len(tasks)]

\* the run has returned and every task of it has ended without a failure
EndedClean ==
    /\ pc = "done"
    /\ faults = 0
    /\ \A y \in Window : deletes[y] = "completed"
    /\ \A i \in DOMAIN load_tasks : load_tasks[i].state = "completed"

\* C27: after a run without failure, the fact rows of a year with several
\* archives are the reshaped rows of every archive's results table together
C27_ArchivesAccumulate ==
    \A y \in Window :
        (EndedClean /\ Cardinality(LoadsOf(y)) >= 2)
        => RowsOfYear(fact, y) = Accumulated(load_tasks, y)

\* no load removes a row from the fact table
C27_LoadsOnlyAdd ==
    [][(\E i \in DOMAIN load_tasks :
           load_tasks[i].state = "pending" /\ load_tasks'[i].state # "pending")
       => fact \sqsubseteq fact']_vars

----------------------------------------------------------------------------
(* The parser specification: parse_zip_caret on one payload *)

\* the headers the two signatures are made of, and one that belongs to neither
SigColumns ==
    <<"County Code", "District Code", "School Code", "Type Id", "Test Year",
      "Test Type", "Test ID", "Student Group ID", "Mean Scale Score",
      "Total Students Tested with Scores", "Total Tested with Scores at Reporting Level",
      "grade">>

\* a file of one row with the headers S, in the order of SigColumns
FrameOf(S) ==
    LET cols == SelectSeq(SigColumns, LAMBDA c : c \in S)
    IN  [cols |-> cols, rows |-> << [i \in DOMAIN cols |-> <<"v">>] >>]

\* an archive of one readable file, for every set of headers
ColumnSetArchives ==
    { [corrupt |-> FALSE,
       entries |-> << [ext |-> "csv", readable |-> TRUE, frame |-> FrameOf(S)] >>] :
      S \in SUBSET Range(SigColumns) }

EntitiesEntry == [ext |-> "txt", readable |-> TRUE, frame |-> EntitiesFile]

ResultsEntry == [ext |-> "csv", readable |-> TRUE, frame |-> ResultsFile(1)]

\* entries that are neither: a document, a file of another layout, an empty file
\* (read_csv raises on it)
ExtraEntries ==
    { [ext |-> "pdf", readable |-> TRUE, frame |-> None],
      [ext |-> "csv", readable |-> TRUE,
       frame |-> [cols |-> <<"note">>, rows |-> << << <<"v">> >> >>]],
      [ext |-> "txt", readable |-> FALSE, frame |-> None] }

\* the archives of one entities file, one results file and at most b other
\* entries, in every order
MixedArchivesOf(extras, b) ==
    { [corrupt |-> FALSE, entries |-> es] :
      es \in { es \in UNION {[1..n -> {EntitiesEntry, ResultsEntry} \cup extras] :
                               n \in 2..(2 + b)} :
               /\ Cardinality({i \in DOMAIN es : es[i] = EntitiesEntry}) = 1
               /\ Cardinality({i \in DOMAIN es : es[i] = ResultsEntry}) = 1 } }

MixedArchives == MixedArchivesOf(ExtraEntries, MaxExtra)

CorruptArchive == [corrupt |-> TRUE, entries |-> <<>>]

\* entries of archives that hold a class more than once: two results files, two
\* entities files, a file that cannot be read
RepeatEntries ==
    { ResultsEntry,
      [ext |-> "txt", readable |-> TRUE, frame |-> ResultsFile(2)],
      EntitiesEntry,
      [ext |-> "csv", readable |-> TRUE,
       frame |-> [EntitiesFile EXCEPT !.rows = << @[1] >>]],
      [ext |-> "txt", readable |-> FALSE, frame |-> None] }

\* the archives of two to b + 1 of these entries, in every order
RepeatArchivesOf(b) ==
    { [corrupt |-> FALSE, entries |-> es] :
      es \in UNION {[1..n -> RepeatEntries] : n \in 2..(b + 1)} }

RepeatArchives == RepeatArchivesOf(MaxExtra)

InitParse ==
    /\ zip_bytes \in ColumnSetArchives \cup MixedArchives \cup RepeatArchives
                     \cup {CorruptArchive}
    /\ contents = [entities |-> None, tests |-> None]
    /\ parsed = FALSE
    /\ LocatorIdle /\ FetchIdle /\ SqlIdle
    /\ LoaderIdle
    /\ IndexIdle
    /\ FlowIdle

\* parse_zip_caret(zip_bytes) is called and returns
ParseZip ==
    /\ ~parsed
    /\ LET res == parse_zip_caret(zip_bytes)
       IN  contents' = [entities |-> res.entities, tests |-> res.tests]
    /\ parsed' = TRUE
    /\ UNCHANGED <<zip_bytes, locatorVars, fetchVars, sqlVars, fact, loaderVars, indexVars,
                   flowVars>>

NextParse == ParseZip

SpecParse == InitParse /\ [][NextParse]_vars

----------------------------------------------------------------------------
(* Claims about parse_zip_caret *)

\* the five columns of the entities signature
EntityFive == {"county_code", "district_code", "school_code", "type_id", "test_year"}

\* the normalized columns of the one file of a one-file archive
OnlyColumns == Range(Norm(zip_bytes.entries[1].frame).cols)

OneFile == zip_bytes \in ColumnSetArchives

\* C11: no table is stored under both classes: the contents of a one-file archive
\* hold the file under at most one of entities and tests
C11_ClassesExclusive ==
    (parsed /\ OneFile) => (contents.tests = None \/ contents.entities = None)

\* a parsed file that carries both signatures
C11_Witness ==
    /\ parsed
    /\ OneFile
    /\ EntityFive \subseteq OnlyColumns
    /\ IsTests(OnlyColumns)
    /\ contents.tests # None

\* C12: a file is stored as tests exactly when it has the four tests columns and
\* one of the two score-count columns, as entities exactly when it has the five
\* entities columns and is not a tests table, and is dropped otherwise
C12_ClassificationRule ==
    (parsed /\ OneFile) =>
        LET C      == OnlyColumns
            d      == Norm(zip_bytes.entries[1].frame)
            isT    == /\ {"test_type", "test_id", "student_group_id",
                          "mean_scale_score"} \subseteq C
                      /\ \E c \in {"total_students_tested_with_scores",
                                   "total_tested_with_scores_at_reporting_level"} : c \in C
            isE    == EntityFive \subseteq C /\ ~isT
        IN  /\ contents.tests = (IF isT THEN d ELSE None)
            /\ contents.entities = (IF isE THEN d ELSE None)

\* C13: from an archive of one entities file, one results file and other entries
\* the parser returns the entities file under entities and the results file
\* under tests, in whatever order the entries are
C13_OrderIndependent ==
    (parsed /\ zip_bytes \in MixedArchives) =>
        /\ contents.entities = Norm(EntitiesFile)
        /\ contents.tests = Norm(ResultsFile(1))

\* C14: when the payload of a fetched archive cannot be opened, parse_zip_caret
\* raises nothing and returns both parts empty: the flow submits the load of the
\* empty contents and goes on with the next archive or year
C14_CorruptArchiveContained ==
    [][(/\ pc = "archive"
        /\ Head(zip_urls).corrupt
        /\ (zip_urls' # zip_urls \/ flowError' = "parse"))
       => /\ flowError' = "none"
          /\ load_tasks' = Append(load_tasks, [year |-> cur_y, tests |-> None,
                                                lookup |-> None, state |-> "pending"])
          /\ entity_dataframes' = entity_dataframes
          /\ pc' = (IF Tail(zip_urls) = <<>> THEN AfterYear(cur_y) ELSE "archive")]_vars

\* a run that returned after an archive that could not be opened
C14_Witness ==
    /\ pc = "done"
    /\ buildSubmitted
    /\ \E i \in DOMAIN load_tasks :
          load_tasks[i].tests = None /\ load_tasks[i].lookup = None

\* the entries of the archive that match the signature of class
MatchesOf(class) ==
    {i \in DOMAIN zip_bytes.entries :
        LET e == zip_bytes.entries[i]
        IN  /\ e.ext \in {"csv", "txt"}
            /\ e.readable
            /\ Classify(Range(Norm(e.frame).cols)) = class}

\* the last of a non-empty set of entries
LastOf(hits) == CHOOSE i \in hits : \A j \in hits : j <= i

\* C28: when several entries of an archive match one signature, the parser
\* returns under that class the last of them in the archive's order
C28_LastMatchKept ==
    (parsed /\ zip_bytes \in RepeatArchives) =>
        /\ Cardinality(MatchesOf("tests")) >= 2
           => contents.tests = Norm(zip_bytes.entries[LastOf(MatchesOf("tests"))].frame)
        /\ Cardinality(MatchesOf("entities")) >= 2
           => contents.entities
                = Norm(zip_bytes.entries[LastOf(MatchesOf("entities"))].frame)

\* the last match is kept in the archives all of whose entries can be read
C28_LastOfReadable ==
    (parsed /\ zip_bytes \in RepeatArchives
     /\ \A i \in DOMAIN zip_bytes.entries : zip_bytes.entries[i].readable) =>
        /\ MatchesOf("tests") # {}
           => contents.tests = Norm(zip_bytes.entries[LastOf(MatchesOf("tests"))].frame)
        /\ MatchesOf("entities") # {}
           => contents.entities
                = Norm(zip_bytes.entries[LastOf(MatchesOf("entities"))].frame)

----------------------------------------------------------------------------
(* caret_zip_urls (flow.py:27-45) *)

(* A URL or link target is a sequence of pieces of text; the substring tests of *)
(* the code are tests on the pieces.                                            *)

\* str.lower() on the pieces that have upper-case letters
LowerTable == << <<"SB_", "sb_">>, <<"CSV", "csv">>, <<"ALL", "all">>, <<".ZIP", ".zip">> >>

LowerPiece(w) ==
    IF \E i \in DOMAIN LowerTable : LowerTable[i][1] = w
    THEN LowerTable[CHOOSE i \in DOMAIN LowerTable : LowerTable[i][1] = w][2]
    ELSE w

\* u.lower()
Lower(u) == [i \in DOMAIN u |-> LowerPiece(u[i])]

\* w in u
Contains(u, w) == \E i \in DOMAIN u : u[i] = w

\* line 37: the publisher's host
Host == <<"https://caaspp-elpac.ets.org">>

\* line 30: the pattern href="([^"]+\.zip)" with re.IGNORECASE on the link targets
IsZipHref(h) == Len(h) >= 2 /\ LowerPiece(h[Len(h)]) = ".zip"

\* lines 35-37: a target that starts with "/" gets the host in front
Resolve(h) == IF h # <<>> /\ h[1] = "/" THEN Host \o h ELSE h

\* line 41: the selection filter
Selected(u) ==
    /\ Contains(Lower(u), "sb_")
    /\ Contains(Lower(u), "csv")
    /\ Contains(Lower(u), "all")
    /\ ~Contains(Lower(u), "math")
    /\ ~Contains(Lower(u), "ela")

RECURSIVE DedupKeepAll(_)
\* a return of the list as collected
DedupKeepAll(s) == IF s = <<>> THEN <<>> ELSE <<Head(s)>> \o DedupKeepAll(Tail(s))

RECURSIVE Dedup(_)
\* line 45: list(dict.fromkeys(out)), every URL at the place of its first occurrence
Dedup(s) ==
    IF s = <<>> THEN <<>>
    ELSE <<Head(s)>> \o Dedup(SelectSeq(Tail(s), LAMBDA u : u # Head(s)))

\* caret_zip_urls(list_html)
caret_zip_urls(page) ==
    LET hrefs == SelectSeq(page, IsZipHref)
        urls  == [i \in DOMAIN hrefs |-> Resolve(hrefs[i])]
    IN  Dedup(SelectSeq(urls, Selected))

----------------------------------------------------------------------------
(* The locator specification: caret_zip_urls on one listing page *)

\* link targets of a listing page: a combined file by a host-relative link, one
\* by an absolute link, the subject files, a combined file in upper case by a
\* path-relative link, a page
LinkSamples ==
    { <<"/", "files/", "sb_", "ca_", "all", "_", "csv", ".zip">>,
      <<"https://caaspp-elpac.ets.org", "/", "files/", "sb_", "us_", "all", "_", "csv", ".zip">>,
      <<"/", "files/", "sb_", "ca_", "all", "_", "csv", "_", "math", ".zip">>,
      <<"/", "files/", "sb_", "ca_", "all", "_", "csv", "_", "ela", ".zip">>,
      <<"files/", "SB_", "ca_", "ALL", "_", "CSV", ".ZIP">>,
      <<"/", "about", ".html">> }

Pages == UNION {[1..n -> LinkSamples] : n \in 0..MaxLinks}

InitLocate ==
    /\ list_html \in Pages
    /\ located = <<>>
    /\ locateCalls = 0
    /\ ParserIdle /\ FetchIdle /\ SqlIdle
    /\ LoaderIdle
    /\ IndexIdle
    /\ FlowIdle

\* caret_zip_urls(list_html) runs
Locate ==
    /\ locateCalls = 0
    /\ located' = caret_zip_urls(list_html)
    /\ locateCalls' = 1
    /\ UNCHANGED <<list_html, parserVars, fetchVars, sqlVars, fact, loaderVars, indexVars,
                   flowVars>>

NextLocate == Locate

SpecLocate == InitLocate /\ [][NextLocate]_vars

----------------------------------------------------------------------------
(* Claims about caret_zip_urls *)

\* the places of the page whose link is a .zip target that passes the filter
Matching == {i \in DOMAIN list_html : IsZipHref(list_html[i]) /\ Selected(Resolve(list_html[i]))}

\* the first place of the page that links to URL u
FirstPlace(u) ==
    CHOOSE i \in Matching :
        /\ Resolve(list_html[i]) = u
        /\ \A j \in Matching : Resolve(list_html[j]) = u => i <= j

\* C15: the list returned holds exactly the .zip link targets of the page that
\* pass the filter, each once, in the order of their first occurrence
C15_ExactlyTheMatchingLinks ==
    locateCalls = 1 =>
        /\ {located[k] : k \in DOMAIN located} = {Resolve(list_html[i]) : i \in Matching}
        /\ \A k, l \in DOMAIN located : k # l => located[k] # located[l]
        /\ \A k, l \in DOMAIN located : k < l => FirstPlace(located[k]) < FirstPlace(located[l])

\* a page of three matching and two other links, with three URLs returned
C15_Witness ==
    /\ locateCalls = 1
    /\ Len(list_html) = 5
    /\ Cardinality(Matching) = 3
    /\ Len(located) = 3

\* a URL with scheme and host
IsAbsolute(u) == u # <<>> /\ u[1] = "https://caaspp-elpac.ets.org"

\* C16: every URL returned is absolute
C16_AllAbsolute ==
    \A k \in DOMAIN located : IsAbsolute(located[k])

----------------------------------------------------------------------------
(* http_get (flow.py:21-25): one run of the task *)

\* what one requests.get may come back with: a success status with a body (empty
\* or not), an error status, or no response at all (status 0: timeout, connection
\* error)
Responses ==
    {[status |-> 200, body |-> b] : b \in {<<>>, <<"page">>, <<"zip">>}}
    \cup {[status |-> st, body |-> <<"error page">>] : st \in {404, 500, 503}}
    \cup {[status |-> 0, body |-> <<>>]}

\* an attempt that also raised on a success status with an empty body
RaisesOnEmpty(r) == r.status = 0 \/ r.status >= 400 \/ r.body = <<>>

\* lines 23-24: requests.get raises without a response, raise_for_status raises
\* on an error status
Raises(r) == r.status = 0 \/ r.status >= 400

\* the state of the task run after its n-th attempt got response r
AfterAttempt(n, r) ==
    IF ~Raises(r) THEN "completed"
    ELSE IF n <= retries THEN "running"
    ELSE "failed"

InitFetch ==
    /\ responses = <<>>
    /\ fetchState = "running"
    /\ content = <<>>
    /\ ParserIdle /\ LocatorIdle /\ SqlIdle
    /\ LoaderIdle
    /\ IndexIdle
    /\ FlowIdle

\* one attempt of the task run: the request is sent, the response handled
Attempt ==
    /\ fetchState = "running"
    /\ \E r \in Responses :
          /\ responses' = Append(responses, r)
          /\ fetchState' = AfterAttempt(Len(responses) + 1, r)
          /\ content' = IF Raises(r) THEN content ELSE r.body
    /\ UNCHANGED <<parserVars, locatorVars, sqlVars, fact, loaderVars, indexVars, flowVars>>

NextFetch == Attempt

SpecFetch == InitFetch /\ [][NextFetch]_vars

----------------------------------------------------------------------------
(* Claims about http_get *)

\* a response with a success status
Success(r) == r.status >= 200 /\ r.status < 300

----------------------------------------------------------------------------
(* Claims about ensure_years *)

\* C18: once ensure_years has run, analytics.dim_year has a row for every year of
\* the window, and no step of the pipeline deletes or changes a row of it
C18_YearRowsKept ==
    /\ [](pc # "start" => \A y \in Window : \E row \in dim_year : row.year_key = y)
    /\ [][\A row \in dim_year : row \in dim_year']_vars

\* after ensure_years: the rows from before the run beside the rows it added
C18_Witness ==
    /\ pc # "start"
    /\ DimBefore \subseteq dim_year
    /\ Cardinality(dim_year) = last_years + 1

----------------------------------------------------------------------------
(* Claims about the legacy synonyms of load_tests *)

\* the legacy synonyms: <<legacy column, canonical column, fact field>>
Synonyms ==
    { <<"students_tested", "total_students_tested", "tested">>,
      <<"total_tested_with_scores_at_reporting_level",
        "total_students_tested_with_scores", "tested_with_scores">>,
      <<"students_with_scores", "total_students_tested_with_scores", "tested_with_scores">> }

\* the values of column c of tests
ValuesOf(c) == {Cell(tests, r, c) : r \in DOMAIN tests.rows}

\* C19: the rows loaded take a field from a legacy synonym only when the table
\* lacks the canonical column; when the table has the canonical column the field
\* holds the canonical column's values
C19_CanonicalPreferred ==
    loadResult = "loaded" =>
        \A syn \in Synonyms : \A row \in NewRows :
            /\ HasCol(tests, syn[2]) => row[syn[3]] \in ValuesOf(syn[2])
            /\ (HasCol(tests, syn[1]) /\ row[syn[3]] \in ValuesOf(syn[1]))
               => ~HasCol(tests, syn[2])

\* a load of a table that has students_tested beside total_students_tested: the
\* rows loaded hold the values of total_students_tested
C19_Witness ==
    /\ loadResult = "loaded"
    /\ NewRows # {}
    /\ HasCol(tests, "students_tested")
    /\ HasCol(tests, "total_students_tested")
    /\ \A row \in NewRows : row["tested"] \in ValuesOf("total_students_tested")

----------------------------------------------------------------------------
(* SQLToolkit (tools_sql.py): the retry-limited query tool and run_query *)

(* A query is a sequence of words; the substring tests of the code are tests on *)
(* the words, a word such as created_at holding the substring create.           *)

\* str.lower() on the words that have upper-case letters
LowerWords == << <<"SELECT", "select">>, <<"DROP", "drop">>, <<"GRANT", "grant">> >>

LowerWord(w) ==
    IF \E i \in DOMAIN LowerWords : LowerWords[i][1] = w
    THEN LowerWords[CHOOSE i \in DOMAIN LowerWords : LowerWords[i][1] = w][2]
    ELSE w

\* lines 141, 212: the substrings that block a query
Blocklist == {"insert", "update", "delete", "drop", "alter", "create", "truncate"}

\* the blocked substrings of a lower-case word
BlockedIn(w) ==
    IF w \in Blocklist THEN {w}
    ELSE IF w = "created_at" THEN {"create"}
    ELSE {}

\* lines 140-141, 211-212: any(x in lower for x in [...])
Blocked(query) == \E i \in DOMAIN query : BlockedIn(LowerWord(query[i])) # {}

\* the query tool with the limit test one attempt late
safe_query_limit_late(query, dbRaises) ==
    IF Blocked(query)
    THEN [answer |-> "only_select", sent |-> FALSE, count |-> error_count,
          error |-> last_error_text]
    ELSE IF error_count > max_attempts
    THEN [answer |-> "max_attempts", sent |-> FALSE, count |-> error_count,
          error |-> last_error_text]
    ELSE IF dbRaises
    THEN [answer |-> "error", sent |-> TRUE, count |-> error_count + 1,
          error |-> <<"db error">>]
    ELSE [answer |-> "result", sent |-> TRUE, count |-> 0, error |-> <<>>]

\* the retry-limited query tool on query, the database raising or not
safe_query_with_retry_limit(query, dbRaises) ==
    IF Blocked(query)
    THEN [answer |-> "only_select", sent |-> FALSE, count |-> error_count,
          error |-> last_error_text]
    ELSE IF error_count >= max_attempts
    THEN [answer |-> "max_attempts", sent |-> FALSE, count |-> error_count,
          error |-> last_error_text]
    ELSE IF dbRaises
    THEN [answer |-> "error", sent |-> TRUE, count |-> error_count + 1,
          error |-> <<"db error">>]
    ELSE [answer |-> "result", sent |-> TRUE, count |-> 0, error |-> <<>>]

----------------------------------------------------------------------------
(* The SQL tool specification: calls of the tools of one toolkit *)

\* queries the agent may write
QuerySamples ==
    { <<"select", "*", "from", "t">>,
      <<"SELECT", "created_at", "from", "t">>,
      <<"DROP", "table", "t">>,
      <<"select", "1", ";", "delete", "from", "t">>,
      <<"GRANT", "all", "on", "t", "to", "public">> }

\* get_tools_with_retry_limit on the toolkit as constructed (lines 107-109)
InitSql ==
    /\ SqlIdle
    /\ ParserIdle /\ LocatorIdle /\ FetchIdle
    /\ LoaderIdle
    /\ IndexIdle
    /\ FlowIdle

\* the chat sessions that share the toolkit get_agent caches (streamlit_app.py 33-42)
Sessions == {1, 2}

\* the failures in a row after a call that answered a
AfterAnswer(n, a) ==
    IF a = "error" THEN n + 1 ELSE IF a = "result" THEN 0 ELSE n

\* the agent of session s calls the query tool (lines 137-174)
SafeQuery(s) ==
    /\ sqlCalls < MaxQueries
    /\ \E query \in QuerySamples, dbRaises \in BOOLEAN :
          \E res \in {safe_query_with_retry_limit(query, dbRaises)} :
              /\ answer' = res.answer
              /\ error_count' = res.count
              /\ last_error_text' = res.error
              /\ last_query_text' = IF res.sent THEN query ELSE last_query_text
              /\ executed' = IF res.sent THEN executed \o <<query>> ELSE executed
              /\ streak' = AfterAnswer(streak, res.answer)
              /\ own' = [own EXCEPT ![s] = AfterAnswer(own[s], res.answer)]
    /\ sqlCalls' = sqlCalls + 1
    /\ caller' = s
    /\ UNCHANGED <<parserVars, locatorVars, fetchVars, fact, loaderVars, indexVars, flowVars>>

\* run_query(query) (lines 209-221): a blocked query and a failed one give []
RunQuery ==
    /\ sqlCalls < MaxQueries
    /\ \E query \in QuerySamples, dbRaises \in BOOLEAN :
          IF Blocked(query)
          THEN answer' = "empty" /\ UNCHANGED executed
          ELSE /\ executed' = executed \o <<query>>
               /\ answer' = IF dbRaises THEN "empty" ELSE "rows"
    /\ sqlCalls' = sqlCalls + 1
    /\ UNCHANGED <<error_count, last_query_text, last_error_text, streak, own, caller, parserVars,
                   locatorVars, fetchVars, fact, loaderVars, indexVars, flowVars>>

\* session s takes a new question: reset_error_count() (tools_sql.py 200-203,
\* streamlit_app.py 115-117)
ResetErrorCount(s) ==
    /\ error_count > 0 \/ own[s] > 0
    /\ error_count' = 0
    /\ streak' = 0
    /\ own' = [own EXCEPT ![s] = 0]
    /\ UNCHANGED <<last_query_text, last_error_text, executed, answer, sqlCalls, caller,
                   parserVars, locatorVars, fetchVars, fact, loaderVars, indexVars, flowVars>>

NextSql ==
    \/ \E s \in Sessions : SafeQuery(s)
    \/ RunQuery
    \/ \E s \in Sessions : ResetErrorCount(s)

SpecSql == InitSql /\ [][NextSql]_vars

----------------------------------------------------------------------------
(* Claims about the SQL tools *)

\* a SELECT query
IsSelect(query) == query # <<>> /\ LowerWord(query[1]) = "select"

\* C20: every query handed to the database is a SELECT
C20_OnlySelectExecuted ==
    \A i \in DOMAIN executed : IsSelect(executed[i])

\* a step that is a call of the retry-limited query tool
ToolCall ==
    /\ sqlCalls' = sqlCalls + 1
    /\ answer' \in {"only_select", "max_attempts", "error", "result"}

\* C21 as stated: once max_attempts executions in a row have failed, every later
\* call of the query tool returns the maximum-attempts error and reaches no
\* database until reset_error_count is called, and a successful query sets the
\* count of failures to 0
C21_EveryCallRefused ==
    [][/\ (streak >= max_attempts /\ ToolCall)
          => (answer' = "max_attempts" /\ executed' = executed)
       /\ (ToolCall /\ answer' = "result") => error_count' = 0]_vars

\* C21: once max_attempts executions in a row have failed, no later call of the
\* query tool reaches the database until reset_error_count is called: the call
\* returns the maximum-attempts error, or the only-SELECT error when the safety
\* check blocks its query; below the limit a call with an unblocked query is
\* executed, and a successful one sets the count of failures to 0
C21_NoExecutionPastLimit ==
    [][/\ (streak >= max_attempts /\ ToolCall)
          => (answer' \in {"max_attempts", "only_select"} /\ executed' = executed)
       /\ (streak < max_attempts /\ ToolCall)
          => answer' \in {"only_select", "error", "result"}
       /\ (ToolCall /\ answer' = "result")
          => (error_count' = 0 /\ Len(executed') = Len(executed) + 1)
       /\ (ToolCall /\ answer' = "error") => error_count' = error_count + 1]_vars

\* three executions failed in a row and the next call got the maximum-attempts
\* error
C21_Witness ==
    /\ streak = max_attempts
    /\ error_count = max_attempts
    /\ answer = "max_attempts"
    /\ Len(executed) = max_attempts
    /\ sqlCalls = max_attempts + 1

\* C30: the attempt budget is per question: a call of the query tool by a chat
\* session is refused with the maximum-attempts error exactly when max_attempts
\* executions of that session's own question have failed in a row since its
\* reset, whatever the other session has done meanwhile
C30_BudgetPerQuestion ==
    [][\A s \in Sessions :
          (ToolCall /\ caller' = s)
          => /\ answer' = "max_attempts" => own[s] >= max_attempts
             /\ answer' \in {"error", "result"} => own[s] < max_attempts]_vars

=============================================================================
